---- MODULE Spec2Model ----
(***************************************************************************)
(* A state-machine model of the JoikervgBot (Sopel) IRC bot:               *)
(*   - Sopel.Job.next                    (src/sopel/bot.py)                *)
(*   - Sopel.JobScheduler                (src/sopel/bot.py)                *)
(*   - Sopel.call / Sopel.dispatch       (src/sopel/bot.py)                *)
(*   - Sopel.cap_req                     (src/sopel/bot.py)                *)
(*   - startup / retry_join              (src/sopel/coretasks.py)          *)
(*   - main (PID file handling)          (src/JoikervgBot.py)              *)
(* Each subsystem has its own specification (SpecJob, SpecSched, ...);     *)
(* the variables of the other subsystems stay at their initial values.     *)
(* Times are whole seconds.                                                *)
(***************************************************************************)
EXTENDS Integers, Sequences, FiniteSets, TLC

VARIABLES
    \* ---- Sopel.Job (SpecJob) ----
    j_next_time,     \* Job.next_time
    j_interval,      \* Job.interval
    j_last_time,     \* local last_time of the latest call of Job.next()
    j_current_time,  \* local current_time of the latest call of Job.next()
    j_calls,         \* number of calls of Job.next() made so far
    \* ---- Sopel.JobScheduler (SpecSched) ----
    s_now,           \* time.time()
    s_jobs,          \* JobScheduler._jobs: the Job objects in the queue
    s_next,          \* Job.next_time of every Job object
    s_ival,          \* Job.interval of every Job object
    s_thread,        \* Job.func.thread of every Job object
    s_created,       \* the Job objects constructed so far
    s_mutex,         \* holder of JobScheduler._mutex
    s_cleared,       \* JobScheduler._cleared
    s_wpc,           \* position of the worker thread in _do_next_job
    s_cur,           \* local job of _do_next_job (0: none)
    s_mpc,           \* position of the main thread in clear_jobs
    s_last,          \* the job of the latest finished round of _do_next_job
    s_clearInExec,   \* clear_jobs() returned while the handler of s_cur ran
    s_ran,           \* the jobs whose handler has been called
    s_fail,          \* the handler called in this round raised an exception
    s_nexted,        \* job.next() was called in this round
    \* ---- Sopel.call (SpecCall) ----
    c_now,           \* time.time()
    c_known,         \* the nicks that are keys of self.times
    c_times,         \* self.times[nick][func] (-1: func is no key)
    c_inv,           \* the invocations of call(): arguments, position, result
    c_n,             \* number of invocations of call() started so far
    \* ---- Sopel.dispatch (SpecDispatch) ----
    d_nick_blocks,   \* config.core.nick_blocks (a list; <<>> when not set)
    d_host_blocks,   \* config.core.host_blocks
    d_admins,        \* config.core.admins
    d_owner,         \* config.core.owner: <<nick>>, or <<nick, host>> for nick@host
    d_limit,         \* config.has_section('limit')
    d_pc,            \* "idle", "recv" (a line has been read), "done" (dispatched)
    d_line,          \* the line being dispatched (origin, event, text)
    d_started,       \* the handlers dispatch() invoked for it, in order
    d_blocked,       \* list_of_blocked_functions
    d_debug,         \* block_type of the debug message ("none": no message)
    d_raised,        \* dispatch() ended by an exception
    d_fail,          \* the handlers whose body raises an exception on this line
    d_errors,        \* the handlers reported through self.error for this line
    \* ---- Sopel.cap_req (SpecCap) ----
    k_cap_reqs,      \* self._cap_reqs: capability -> list of (prefix, module)
    k_registered,    \* self.connection_registered
    k_enabled,       \* self.enabled_capabilities
    k_call,          \* the latest cap_req call and the state it was made in
    k_before,        \* self._cap_reqs before the latest cap_req call
    k_result,        \* how the latest cap_req call ended
    \* ---- coretasks.retry_join (SpecRejoin) ----
    r_started,       \* startup() has run: bot.memory['retry_join'] exists
    r_memory,        \* bot.memory['retry_join']: channel -> counter, -1 absent
    r_pending,       \* channels with a JOIN sent and not yet answered
    r_denials,       \* channel -> 477 replies handled by retry_join
    r_joins,         \* channel -> JOINs sent by retry_join
    r_waits,         \* channel -> time.sleep(6) calls made by retry_join
    r_warned,        \* channel -> warnings logged by retry_join
    \* ---- JoikervgBot.main: PID file handling (SpecMain) ----
    m_procs,         \* pid -> the invocation of main() running as that process
    m_pid_file,      \* PID file: 0 absent, -1 opened for writing (empty), or a pid
    m_has_sigusr1,    \* hasattr(signal, 'SIGUSR1') on this platform
    \* ---- coretasks.handle_names (SpecNames) ----
    n_privileges,    \* bot.privileges: channel -> nick -> bitmask, -1 absent
    n_tracked,       \* the channels that are keys of bot.privileges
    n_before,        \* bot.privileges before the latest 353 reply was handled
    n_reply,         \* the 353 reply in hand: bot.raw as words, trigger as text
    n_pc,             \* idle, recv (reply in hand) or done (reply handled)
    \* ---- Sopel.register / unregister / bind_commands (SpecUnreg) ----
    u_callables,     \* self.callables
    u_commands,      \* self.commands: tier -> pattern -> list of callables
    u_jobs,          \* the callables of the jobs in the scheduler queue
    u_gone,          \* callables unregistered and not registered again since
    u_invoked,       \* the callables invoked by the latest step
    u_by,             \* who invoked them: none, dispatch or scheduler
    \* ---- coretasks.blocks ----
    b_nicks,         \* config.core.nick_blocks
    b_masks,         \* config.core.host_blocks
    b_file,          \* the block lists in the saved configuration file
    b_cmd,           \* the last .blocks command: admin, owner, text
    b_pre,           \* block lists and file before that command
    b_events,         \* saves and replies of that command, in order
    \* ---- Sopel.setup and Config.enumerate_modules ----
    e_regular,       \* module files of the regular modules directory
    e_home,          \* module files of the home modules directory
    e_extra,         \* module files of each core.extra directory, in order
    e_enable,        \* core.enable
    e_exclude,       \* core.exclude
    e_filenames,     \* setup(): filenames, name -> location
    e_loaded,        \* the file imp.load_source was given for each name
    e_pc,             \* setup(): start, enumerated, forced, loaded
    \* ---- Config.add_section ----
    c_sections,      \* parser.sections()
    c_keys,          \* the option names of each section
    c_op,            \* the last operation, its argument and what it returned
    c_before,         \* sections and option names before that operation
    \* ---- coretasks.recieve_cap_ls_reply ----
    l_sasl,          \* config.core.sasl_password is set
    l_server_caps,   \* self.server_capabilities
    l_core_multi,    \* _cap_reqs['multi-prefix'] is the entry of coretasks
    l_sent,          \* the lines the CAP and SASL handlers wrote
    l_pc,            \* first CAP LS reply: waiting, concluded, raised
    l_failed,        \* the failure callbacks LS processing invoked
    l_replies,       \* CAP LS replies handled: none, first, later
    l_got,            \* the SASL steps of the server received so far
    \* ---- coretasks.track_modes on concurrent threads ----
    w_priv,          \* bot.privileges[channel]: nick -> bitmask
    w_thr,           \* the track_modes threads: pc, nick, bit, local priv
    w_granted,        \* the (nick, bit) pairs of the handlers that finished
    \* ---- coretasks.track_join on its thread ----
    tj_pc,           \* the track_join thread: none, test, append, reset, set, done
    tj_channels,       \* bot.channels
    \* ---- Sopel.dispatch, handler by handler ----
    dl_idx,          \* dispatch(): position of the loops in the matching handlers
    dl_body,          \* per handler, its body for this line: none, running, done
    \* ---- coretasks.track_modes ----
    tm_pc,           \* the MODE handler: idle, recv, done
    tm_line,         \* trigger.args of the MODE line: target, mode string, nicks
    tm_st,           \* bot.privileges[channel], the legacy lists, and whether the handler raised
    tm_before,        \* tm_st when the line arrived
    \* ---- coretasks: NICK, PART, KICK, JOIN, QUIT ----
    tk_pc,           \* the handler of the line: idle, recv, done
    tk_line,         \* the line: event, origin nick, sender, first further argument
    tk_st,           \* bot.channels, bot.privileges and the legacy lists
    tk_before,       \* tk_st when the line arrived
    tk_out,          \* what the handler logged, sent and raised; the flags of the Trigger
    tk_left,         \* the (channel, nick) pairs that left and were granted nothing since
    tk_n,             \* the number of lines handled
    \* ---- Sopel.register and Sopel._shutdown ----
    sh_pc,           \* setup() and _shutdown(): idle, setup, ready, shutdown, done
    sh_mods,         \* the module files: what loading them does and what they define
    sh_todo,         \* the modules setup() has still to load
    sh_methods,      \* self.shutdown_methods, each method named by its module
    sh_left,         \* the methods the loop of _shutdown() has still to reach
    sh_calls,        \* per module, how often its shutdown was invoked
    sh_errors,        \* the modules whose shutdown error was written to stderr
    \* ---- Sopel.__init__ on a loaded configuration ----
    ib_pc,           \* Sopel.__init__: none, config (file loaded), built
    ib_cfg,           \* core.nick_blocks, host_blocks, other_bots as the file gives them
    \* ---- coretasks.startup and rfc1459_startup ----
    rg_cfg,          \* core: nickserv_password set, oper_name and oper_password set, modes set, channels
    rg_registered,   \* bot.connection_registered
    rg_seen,         \* the numerics 001 and 251 of this connection, in order of arrival
    rg_out,          \* what startup() has sent and reset, in order
    rg_runs          \* the calls of startup() on this connection

jobVars == <<j_next_time, j_interval, j_last_time, j_current_time, j_calls>>

schedVars == <<s_now, s_jobs, s_next, s_ival, s_thread, s_created, s_mutex,
               s_cleared, s_wpc, s_cur, s_mpc, s_last, s_clearInExec, s_ran,
               s_fail, s_nexted>>

callVars == <<c_now, c_known, c_times, c_inv, c_n>>

dispVars == <<d_nick_blocks, d_host_blocks, d_admins, d_owner, d_limit,
              d_pc, d_line, d_started, d_blocked, d_debug, d_raised,
              d_fail, d_errors>>

capVars == <<k_cap_reqs, k_registered, k_enabled, k_call, k_before, k_result>>

rejoinVars == <<r_started, r_memory, r_pending, r_denials, r_joins, r_waits,
                r_warned>>

mainVars == <<m_procs, m_pid_file, m_has_sigusr1>>

namesVars == <<n_privileges, n_tracked, n_before, n_reply, n_pc>>

unregVars == <<u_callables, u_commands, u_jobs, u_gone, u_invoked, u_by>>

blocksVars == <<b_nicks, b_masks, b_file, b_cmd, b_pre, b_events>>

setupVars == <<e_regular, e_home, e_extra, e_enable, e_exclude, e_filenames, e_loaded, e_pc>>

configVars == <<c_sections, c_keys, c_op, c_before>>

capLSVars == <<l_sasl, l_server_caps, l_core_multi, l_sent, l_pc, l_failed,
    l_replies, l_got>>

raceVars == <<w_priv, w_thr, w_granted>>

joinVars == <<tj_pc, tj_channels>>

tierVars == <<dl_idx, dl_body>>

modesVars == <<tm_pc, tm_line, tm_st, tm_before>>

trackVars == <<tk_pc, tk_line, tk_st, tk_before, tk_out, tk_left, tk_n>>

shutVars == <<sh_pc, sh_mods, sh_todo, sh_methods, sh_left, sh_calls, sh_errors>>

bootVars == <<ib_pc, ib_cfg>>

regVars == <<rg_cfg, rg_registered, rg_seen, rg_out, rg_runs>>

vars == <<jobVars, schedVars, callVars, dispVars, capVars, rejoinVars,
    mainVars, namesVars, unregVars, blocksVars, setupVars, configVars,
    capLSVars, raceVars, joinVars, tierVars, modesVars, trackVars, shutVars,
    bootVars, regVars>>

\* The variables outside each subsystem
OutsideNames == <<jobVars, schedVars, callVars, dispVars, capVars,
    rejoinVars, mainVars, unregVars, blocksVars, setupVars, configVars,
    capLSVars, raceVars, joinVars, tierVars, modesVars, trackVars, shutVars,
    bootVars, regVars>>
OutsideUnreg == <<jobVars, schedVars, callVars, dispVars, capVars,
    rejoinVars, mainVars, namesVars, blocksVars, setupVars, configVars,
    capLSVars, raceVars, joinVars, tierVars, modesVars, trackVars, shutVars,
    bootVars, regVars>>
OutsideBlocks == <<jobVars, schedVars, callVars, dispVars, capVars,
    rejoinVars, mainVars, namesVars, unregVars, setupVars, configVars,
    capLSVars, raceVars, joinVars, tierVars, modesVars, trackVars, shutVars,
    bootVars, regVars>>
OutsideSetup == <<jobVars, schedVars, callVars, dispVars, capVars,
    rejoinVars, mainVars, namesVars, unregVars, blocksVars, configVars,
    capLSVars, raceVars, joinVars, tierVars, modesVars, trackVars, shutVars,
    bootVars, regVars>>
OutsideConfig == <<jobVars, schedVars, callVars, dispVars, capVars,
    rejoinVars, mainVars, namesVars, unregVars, blocksVars, setupVars,
    capLSVars, raceVars, joinVars, tierVars, modesVars, trackVars, shutVars,
    bootVars, regVars>>
OutsideCapLS == <<jobVars, schedVars, callVars, dispVars, capVars,
    rejoinVars, mainVars, namesVars, unregVars, blocksVars, setupVars,
    configVars, raceVars, joinVars, tierVars, modesVars, trackVars, shutVars,
    bootVars, regVars>>
OutsideRace == <<jobVars, schedVars, callVars, dispVars, capVars, rejoinVars,
    mainVars, namesVars, unregVars, blocksVars, setupVars, configVars,
    capLSVars, joinVars, tierVars, modesVars, trackVars, shutVars, bootVars,
    regVars>>
OutsideJoin == <<jobVars, schedVars, callVars, dispVars, capVars, rejoinVars,
    mainVars, namesVars, unregVars, blocksVars, setupVars, configVars,
    capLSVars, raceVars, tierVars, modesVars, trackVars, shutVars, bootVars,
    regVars>>
OutsideTier == <<jobVars, schedVars, callVars, dispVars, capVars, rejoinVars,
    mainVars, namesVars, unregVars, blocksVars, setupVars, configVars,
    capLSVars, raceVars, joinVars, modesVars, trackVars, shutVars, bootVars,
    regVars>>
OutsideModes == <<jobVars, schedVars, callVars, dispVars, capVars,
    rejoinVars, mainVars, namesVars, unregVars, blocksVars, setupVars,
    configVars, capLSVars, raceVars, joinVars, tierVars, trackVars, shutVars,
    bootVars, regVars>>
OutsideJoinNames == <<jobVars, schedVars, callVars, dispVars, capVars,
    rejoinVars, mainVars, unregVars, blocksVars, setupVars, configVars,
    capLSVars, raceVars, tierVars, modesVars, trackVars, shutVars, bootVars,
    regVars>>
OutsideTierDisp == <<jobVars, schedVars, callVars, capVars, rejoinVars,
    mainVars, namesVars, unregVars, blocksVars, setupVars, configVars,
    capLSVars, raceVars, joinVars, modesVars, trackVars, shutVars, bootVars,
    regVars>>
OutsideTrack == <<jobVars, schedVars, callVars, dispVars, capVars,
    rejoinVars, mainVars, namesVars, unregVars, blocksVars, setupVars,
    configVars, capLSVars, raceVars, joinVars, tierVars, modesVars, shutVars,
    bootVars, regVars>>
OutsideShut == <<jobVars, schedVars, callVars, dispVars, capVars, rejoinVars,
    mainVars, namesVars, unregVars, blocksVars, setupVars, configVars,
    capLSVars, raceVars, joinVars, tierVars, modesVars, trackVars, bootVars,
    regVars>>
OutsideBoot == <<jobVars, schedVars, callVars, dispVars, capVars, rejoinVars,
    mainVars, namesVars, unregVars, blocksVars, setupVars, configVars,
    capLSVars, raceVars, joinVars, tierVars, modesVars, trackVars, shutVars,
    regVars>>
OutsideBootDisp == <<jobVars, schedVars, callVars, capVars, rejoinVars,
    mainVars, namesVars, unregVars, blocksVars, setupVars, configVars,
    capLSVars, raceVars, joinVars, tierVars, modesVars, trackVars, shutVars,
    regVars>>
OutsideReg == <<jobVars, schedVars, callVars, dispVars, capVars, rejoinVars,
    mainVars, namesVars, unregVars, blocksVars, setupVars, configVars,
    capLSVars, raceVars, joinVars, tierVars, modesVars, trackVars, shutVars,
    bootVars>>
OutsideJob == <<schedVars, callVars, dispVars, capVars, rejoinVars, mainVars,
    namesVars, unregVars, blocksVars, setupVars, configVars, capLSVars,
    raceVars, joinVars, tierVars, modesVars, trackVars, shutVars, bootVars,
    regVars>>
OutsideSched == <<jobVars, callVars, dispVars, capVars, rejoinVars, mainVars,
    namesVars, unregVars, blocksVars, setupVars, configVars, capLSVars,
    raceVars, joinVars, tierVars, modesVars, trackVars, shutVars, bootVars,
    regVars>>
OutsideCall == <<jobVars, schedVars, dispVars, capVars, rejoinVars, mainVars,
    namesVars, unregVars, blocksVars, setupVars, configVars, capLSVars,
    raceVars, joinVars, tierVars, modesVars, trackVars, shutVars, bootVars,
    regVars>>
OutsideDisp == <<jobVars, schedVars, callVars, capVars, rejoinVars, mainVars,
    namesVars, unregVars, blocksVars, setupVars, configVars, capLSVars,
    raceVars, joinVars, tierVars, modesVars, trackVars, shutVars, bootVars,
    regVars>>
OutsideRejoin == <<jobVars, schedVars, callVars, dispVars, capVars, mainVars,
    namesVars, unregVars, blocksVars, setupVars, configVars, capLSVars,
    raceVars, joinVars, tierVars, modesVars, trackVars, shutVars, bootVars,
    regVars>>
OutsideMain == <<jobVars, schedVars, callVars, dispVars, capVars, rejoinVars,
    namesVars, unregVars, blocksVars, setupVars, configVars, capLSVars,
    raceVars, joinVars, tierVars, modesVars, trackVars, shutVars, bootVars,
    regVars>>
OutsideCap == <<jobVars, schedVars, callVars, dispVars, rejoinVars, mainVars,
    namesVars, unregVars, blocksVars, setupVars, configVars, capLSVars,
    raceVars, joinVars, tierVars, modesVars, trackVars, shutVars, bootVars,
    regVars>>

(***************************************************************************)
(* The state after construction of each subsystem                          *)
(***************************************************************************)

\* Number of Job objects that can be constructed
MaxJobs == 2

JobIds == 1..MaxJobs

\* JobScheduler.__init__ and start(): an empty queue, the mutex free, the
\* worker thread entering _do_next_job
SchedInit ==
    /\ s_now = 0
    /\ s_jobs = {}
    /\ s_next = [j \in JobIds |-> 0]
    /\ s_ival = [j \in JobIds |-> 0]
    /\ s_thread = [j \in JobIds |-> FALSE]
    /\ s_created = {}
    /\ s_mutex = "free"
    /\ s_cleared = FALSE
    /\ s_wpc = "lock"
    /\ s_cur = 0
    /\ s_mpc = "idle"
    /\ s_last = 0
    /\ s_clearInExec = FALSE
    /\ s_ran = {}
    /\ s_fail = FALSE
    /\ s_nexted = FALSE

\* Number of invocations of call()
MaxInvs == 2

Invs == 1..MaxInvs

\* origin nicks: "usr" is in no admin list, "adm" is in core.admins
CallNicks == {"usr", "adm"}

\* handlers: a threaded command, an inline command, an unblockable inline
\* core task
CallFuncs == {"cmd", "inl", "core"}

NoInv == [nick |-> "usr", func |-> "cmd", pc |-> "idle", t_check |-> -1,
          executed |-> FALSE, exit_code |-> "none"]

\* Sopel.__init__: self.times = {}
CallInit ==
    /\ c_now = 0
    /\ c_known = {}
    /\ c_times = [n \in CallNicks |-> [f \in CallFuncs |-> -1]]
    /\ c_inv = [i \in Invs |-> NoInv]
    /\ c_n = 0

NoLine == [nick |-> "", host |-> "", sender |-> "", event |-> "",
           text |-> ""]

\* Sopel.__init__ lines 89-102 on the loaded configuration: the block lists
\* default to empty, and the nicks of the old other_bots option are moved
\* into nick_blocks.  The second test reads nick_blocks again, as the
\* source does.
InitNickBlocks(nick_blocks, other_bots) ==
    IF other_bots # <<>> THEN nick_blocks \o other_bots ELSE nick_blocks

InitHostBlocks(nick_blocks, host_blocks) ==
    IF nick_blocks = <<>> THEN <<>> ELSE host_blocks

\* The values the configuration file can give
NickBlockCfgs == {<<>>, <<"bad">>, <<"BAD", "">>, <<" joe">>}
HostBlockCfgs == {<<>>, <<"evil.net">>, <<"", ".*">>}
OtherBotsCfgs == {<<>>, <<"joe">>}
AdminCfgs == {<<>>, <<<<"adm">>>>, <<<<"bad">>, <<"ops.net">>>>,
              <<<<"x", "ops.net">>>>}
OwnerCfgs == {<<"own">>, <<"bad", "evil.net">>}

\* Before any line has been dispatched, with a fixed configuration
DispIdle ==
    /\ d_nick_blocks = <<>>
    /\ d_host_blocks = <<>>
    /\ d_admins = <<>>
    /\ d_owner = <<"own">>
    /\ d_limit = FALSE
    /\ d_pc = "idle"
    /\ d_line = NoLine
    /\ d_started = <<>>
    /\ d_blocked = <<>>
    /\ d_debug = "none"
    /\ d_raised = FALSE
    /\ d_fail = {}
    /\ d_errors = {}

\* Sopel.__init__ on a configuration drawn from the values above
DispInit ==
    /\ \E nb \in NickBlockCfgs, hb \in HostBlockCfgs, ob \in OtherBotsCfgs :
        /\ d_nick_blocks = InitNickBlocks(nb, ob)
        /\ d_host_blocks = InitHostBlocks(nb, hb)
    /\ d_admins \in AdminCfgs
    /\ d_owner \in OwnerCfgs
    /\ d_limit \in BOOLEAN
    /\ d_pc = "idle"
    /\ d_line = NoLine
    /\ d_started = <<>>
    /\ d_blocked = <<>>
    /\ d_debug = "none"
    /\ d_raised = FALSE
    /\ d_fail = {}
    /\ d_errors = {}

\* The capabilities and the modules that request them
Caps == {"sasl", "away-notify"}
CapModules == {"a", "b"}

NoCall == [prefix |-> "", cap |-> "", module |-> "", registered |-> FALSE,
           enabled |-> FALSE]

\* Sopel.__init__: no capability requested or enabled; the connection is
\* not registered
CapInit ==
    /\ k_cap_reqs = [c \in Caps |-> <<>>]
    /\ k_registered = FALSE
    /\ k_enabled = {}
    /\ k_call = NoCall
    /\ k_before = [c \in Caps |-> <<>>]
    /\ k_result = "none"

\* Largest number of processes that run main()
MaxProcs == 2

Pids == 1..MaxProcs

\* A process that has not been started: no flag given, nothing done
NoProc == [pc |-> "idle", quit |-> FALSE, kill |-> FALSE, deamonize |-> FALSE,
           file |-> "unknown", old_pid |-> 0, alive |-> "unknown", msg |-> "none", status |-> -1,
           sent |-> <<>>, target_alive |-> FALSE, wrote |-> FALSE,
           forked |-> FALSE, ran |-> FALSE]

\* No process runs and no PID file exists
MainIdle ==
    /\ m_procs = [p \in Pids |-> NoProc]
    /\ m_pid_file = 0
    /\ m_has_sigusr1 = TRUE

MainInit ==
    /\ m_procs = [p \in Pids |-> NoProc]
    /\ m_pid_file = 0
    /\ m_has_sigusr1 \in BOOLEAN

\* core.channels of the configuration
Channels == {"#a", "#b"}

\* Before the 001 reply nothing was joined and no retry counter exists
RejoinInit ==
    /\ r_started = FALSE
    /\ r_memory = [c \in Channels |-> -1]
    /\ r_pending = {}
    /\ r_denials = [c \in Channels |-> 0]
    /\ r_joins = [c \in Channels |-> 0]
    /\ r_waits = [c \in Channels |-> 0]
    /\ r_warned = [c \in Channels |-> 0]

\* The channels and the nick keys of the privilege map
PrivChans == {<<"#", "x">>}
PrivKeys == {<<"a">>, <<"b">>, <<"c">>, <<>>}

NoReply == [raw |-> <<>>, text |-> <<>>]

\* Sopel.__init__ line 64: self.privileges = dict(); -1 stands for no entry
NamesInit ==
    /\ n_privileges = [c \in PrivChans |-> [k \in PrivKeys |-> -1]]
    /\ n_tracked = {}
    /\ n_before = [c \in PrivChans |-> [k \in PrivKeys |-> -1]]
    /\ n_reply = NoReply
    /\ n_pc = "idle"

\* The callables of the loaded modules and the patterns they bind
UFuncs == {"cmd", "tick", "twice", "core"}
UPatterns == {"p", "q"}
UTiers == {"high", "medium", "low"}

\* Sopel.__init__ and setup before the first bind_commands: nothing is
\* registered, bound or scheduled
UnregInit ==
    /\ u_callables = {}
    /\ u_commands = [t \in UTiers |-> [re \in UPatterns |-> <<>>]]
    /\ u_jobs = {}
    /\ u_gone = {}
    /\ u_invoked = {}
    /\ u_by = "none"


\* the words a .blocks command can carry as its value
BlockValues == {"a", "B"}

\* no .blocks command handled yet
NoCmd == [admin |-> FALSE, owner |-> FALSE, text |-> <<>>]

\* the configuration as loaded: no blocks, the file equal to the parser
BlocksInit ==
    /\ b_nicks = <<>>
    /\ b_masks = <<>>
    /\ b_file = [nicks |-> <<>>, masks |-> <<>>]
    /\ b_cmd = NoCmd
    /\ b_pre = [nicks |-> <<>>, masks |-> <<>>,
                file |-> [nicks |-> <<>>, masks |-> <<>>]]
    /\ b_events = <<>>


\* module names: the core task module, a user module, a private file
ModNames == {"coretasks", "m", "_m"}

\* where a module file can come from; "none" is no entry in the dict
Locations == {"regular", "home", "extra1", "extra2", "extra3", "internal"}

NoModules == [n \in ModNames |-> "none"]

\* setup() has not run and the directories are empty
SetupIdle ==
    /\ e_regular = {}
    /\ e_home = {}
    /\ e_extra = <<>>
    /\ e_enable = {}
    /\ e_exclude = {}
    /\ e_filenames = NoModules
    /\ e_loaded = NoModules
    /\ e_pc = "start"


\* section names and option names of the configuration
SecNames == {"core", "a", "b", "DEFAULT"}

OptKeys == {"k1", "k2"}

NoConfigOp == [op |-> "none", name |-> "", ret |-> "None", existed |-> FALSE]

\* Config(filename, load=False): the parser holds the section core only
ConfigInit ==
    /\ c_sections = {"core"}
    /\ c_keys = [n \in SecNames |-> {}]
    /\ c_op = NoConfigOp
    /\ c_before = [sections |-> {"core"}, keys |-> [n \in SecNames |-> {}]]


\* Sopel.__init__: no CAP LS reply seen, nothing written; no SASL password
CapLSIdle ==
    /\ l_sasl = FALSE
    /\ l_server_caps = {}
    /\ l_core_multi = FALSE
    /\ l_sent = <<>>
    /\ l_pc = "waiting"
    /\ l_failed = {}
    /\ l_replies = "none"
    /\ l_got = {}


\* the handler threads dispatch has spawned for MODE lines
MaxModeThreads == 2

ModeThreads == 1..MaxModeThreads

\* the nicks of the channel whose modes change
RaceNicks == {"x", "y"}

NoModeThread == [pc |-> "idle", nick |-> "", bit |-> 0, priv |-> 0]

\* the bot is in the channel, nobody has a privilege, no handler runs
RaceInit ==
    /\ w_priv = [n \in RaceNicks |-> 0]
    /\ w_thr = [t \in ModeThreads |-> NoModeThread]
    /\ w_granted = {}


\* the bot has joined no channel and no JOIN handler runs
JoinInit ==
    /\ tj_pc = "none"
    /\ tj_channels = {}


\* dispatch() is not in its loops and no handler body runs
TierInit ==
    /\ dl_idx = 0
    /\ dl_body = [f \in {"track", "help", "help2", "seen", "echo"} |-> "none"]


\* no MODE line has been handled: nobody has a privilege in the channel
ModesInit ==
    /\ tm_pc = "idle"
    /\ tm_line = [target |-> <<>>, mode_sec |-> <<>>, nicks |-> <<>>]
    /\ tm_st = [priv |-> [n \in {"a", "b"} |-> -1], ops |-> {},
                halfops |-> {}, voices |-> {}, raised |-> FALSE]
    /\ tm_before = tm_st


\* the bot is in no channel and nothing is known of any user
TrackIdle ==
    /\ tk_pc = "idle"
    /\ tk_line = [event |-> "", nick |-> "", sender |-> "", arg |-> ""]
    /\ tk_st = [channels |-> {}, tracked |-> {},
                priv |-> [c \in {"#x", "#y"} |->
                            [n \in {"a", "b", "c", "s"} |-> -1]],
                ops |-> [c \in {"#x", "#y"} |-> {}],
                halfops |-> [c \in {"#x", "#y"} |-> {}],
                voices |-> [c \in {"#x", "#y"} |-> {}]]
    /\ tk_before = tk_st
    /\ tk_out = [debug |-> FALSE, msg |-> FALSE, raised |-> FALSE,
                 isop |-> FALSE, isvoice |-> FALSE]
    /\ tk_left = {}
    /\ tk_n = 0


\* setup() has not run: no module is described and no shutdown method known
ShutIdle ==
    /\ sh_pc = "idle"
    /\ sh_mods = [m \in {"m1", "m2"} |->
                    [loads |-> FALSE, setup_ok |-> FALSE,
                     shutdown |-> "none", raises |-> FALSE]]
    /\ sh_todo = {}
    /\ sh_methods = {}
    /\ sh_left = {}
    /\ sh_calls = [m \in {"m1", "m2"} |-> 0]
    /\ sh_errors = {}


\* no configuration file has been loaded for a Sopel object
BootIdle ==
    /\ ib_pc = "none"
    /\ ib_cfg = [nick_blocks |-> <<>>, host_blocks |-> <<>>,
                 other_bots |-> <<>>]


\* no connection: nothing configured, nothing received
RegIdle ==
    /\ rg_cfg = [nickserv |-> FALSE, oper |-> FALSE, modes |-> FALSE,
                 channels |-> <<>>]
    /\ rg_registered = FALSE
    /\ rg_seen = <<>>
    /\ rg_out = <<>>
    /\ rg_runs = 0

(***************************************************************************)
(* Sopel.Job                                                               *)
(***************************************************************************)

\* Largest clock reading drawn for time.time()
MaxTime == 24
\* Largest interval drawn for a job
MaxInterval == 3
\* Number of consecutive calls of Job.next() on one job
MaxCalls == 2
\* The spec's worked example: a job with this interval ...
ExampleInterval == 10
\* ... whose call completes this many seconds after its scheduled time
ExampleLate == 1000

\* Job.max_catchup
max_catchup == 5

Abs(x) == IF x < 0 THEN -x ELSE x

Times == 0..MaxTime

Intervals == (0..MaxInterval) \cup {ExampleInterval}

\* Job.next without the catch-up cap (a late job keeps its fixed cadence)
JobNextNoCap(last_time, current_time, interval) ==
    IF last_time > current_time + interval
    THEN current_time + interval
    ELSE last_time + interval

\* Job.next without the clock-rollback branch
JobNextNoRollback(last_time, current_time, interval) ==
    LET delta == last_time + interval - current_time IN
    IF delta < 0 /\ Abs(delta) > interval * max_catchup
    THEN current_time - interval * max_catchup
    ELSE last_time + interval

\* Job.next with the rollback noticed only beyond three intervals
JobNextLateRollback(last_time, current_time, interval) ==
    LET delta == last_time + interval - current_time IN
    IF last_time > current_time + 3 * interval
    THEN current_time + interval
    ELSE IF delta < 0 /\ Abs(delta) > interval * max_catchup
         THEN current_time - interval * max_catchup
         ELSE last_time + interval

\* Job.next(): the new next_time
JobNext(last_time, current_time, interval) ==
    LET delta == last_time + interval - current_time IN
    IF last_time > current_time + interval
    THEN current_time + interval
    ELSE IF delta < 0 /\ Abs(delta) > interval * max_catchup
         THEN current_time - interval * max_catchup
         ELSE last_time + interval

\* Job.__init__(interval, func) at clock reading t0
JobInit ==
    \E t0 \in Times, interval \in Intervals :
        /\ j_next_time = t0 + interval
        /\ j_interval = interval
        /\ j_last_time = t0 + interval
        /\ j_current_time = t0
        /\ j_calls = 0

\* A Job object nobody has called next() on (the other specifications)
JobIdle ==
    /\ j_next_time = 0
    /\ j_interval = 0
    /\ j_last_time = 0
    /\ j_current_time = 0
    /\ j_calls = 0

\* One call of job.next() at clock reading now.  The clock is the
\* environment's: it may have moved either way since the previous reading.
JobNextCall ==
    /\ j_calls < MaxCalls
    /\ \E now \in Times \cup {j_next_time + ExampleLate} :
        /\ j_last_time' = j_next_time
        /\ j_current_time' = now
        /\ j_next_time' = JobNext(j_next_time, now, j_interval)
    /\ j_calls' = j_calls + 1
    /\ UNCHANGED j_interval
    /\ UNCHANGED OutsideJob

NextJob == JobNextCall

InitJob ==
    /\ JobInit
    /\ SchedInit
    /\ CallInit
    /\ DispIdle
    /\ CapInit
    /\ RejoinInit
    /\ MainIdle
    /\ NamesInit
    /\ UnregInit
    /\ BlocksInit
    /\ SetupIdle
    /\ ConfigInit
    /\ CapLSIdle
    /\ RaceInit
    /\ JoinInit
    /\ TierInit
    /\ ModesInit
    /\ TrackIdle
    /\ ShutIdle
    /\ BootIdle
    /\ RegIdle

SpecJob == InitJob /\ [][NextJob]_vars

\* C4: after Job.next(), if current_time is later than last_time + interval
\* by more than 5 intervals then next_time = current_time - 5*interval, and
\* in every case next_time is at least current_time - 5*interval.
C4_CatchupCap ==
    j_calls > 0 =>
        /\ (j_current_time - (j_last_time + j_interval) > 5 * j_interval
               => j_next_time = j_current_time - 5 * j_interval)
        /\ j_next_time >= j_current_time - 5 * j_interval

\* interval = 10 and a call 1000 s late give now - 50
C4_Witness ==
    /\ j_calls > 0
    /\ j_interval = 10
    /\ j_current_time = j_last_time + 1000
    /\ j_next_time = j_current_time - 50

C40_RescheduleBounds ==
    j_calls > 0 =>
        /\ j_current_time - 5 * j_interval <= j_next_time
        /\ j_next_time <= j_current_time + 2 * j_interval
        /\ (/\ j_last_time <= j_current_time + j_interval
            /\ j_current_time - (j_last_time + j_interval) <= 5 * j_interval)
           => j_next_time = j_last_time + j_interval

\* a late call within the catch-up allowance keeps the fixed cadence, and
\* the bounds are met with a next_time that is not the clock reading
C40_Witness ==
    /\ j_calls > 0
    /\ j_interval > 0
    /\ j_current_time > j_last_time + j_interval
    /\ j_current_time - (j_last_time + j_interval) <= 5 * j_interval
    /\ j_next_time = j_last_time + j_interval
    /\ j_next_time < j_current_time

(***************************************************************************)
(* Sopel.JobScheduler                                                      *)
(***************************************************************************)

\* Largest clock reading of the scheduler's run
MaxSchedClock == 2
\* Largest interval of a scheduled job
MaxSchedInterval == 1

\* JobScheduler.min_reaction_time
min_reaction_time == 30

Min(a, b) == IF a < b THEN a ELSE b

\* A queue ordered the other way round: the queued jobs of greatest next_time
EarliestReversed(q) == {j \in q : \A k \in q : s_next[j] >= s_next[k]}

\* PriorityQueue order (Job.__cmp__): the queued jobs of least next_time
Earliest(q) == {j \in q : \A k \in q : s_next[j] <= s_next[k]}

\* The clock advances
SchedTick ==
    /\ s_now < MaxSchedClock
    /\ s_now' = s_now + 1
    /\ UNCHANGED <<s_jobs, s_next, s_ival, s_thread, s_created, s_mutex,
                   s_cleared, s_wpc, s_cur, s_mpc, s_last, s_clearInExec,
                   s_ran,
                   s_fail, s_nexted>>
    /\ UNCHANGED OutsideSched

\* bind_commands: job = Sopel.Job(interval, func); scheduler.add_job(job)
AddJob ==
    /\ s_mpc = "idle"
    /\ \E j \in JobIds \ s_created, interval \in 1..MaxSchedInterval,
          thread \in BOOLEAN :
        /\ s_created' = s_created \cup {j}
        /\ s_next' = [s_next EXCEPT ![j] = s_now + interval]
        /\ s_ival' = [s_ival EXCEPT ![j] = interval]
        /\ s_thread' = [s_thread EXCEPT ![j] = thread]
        /\ s_jobs' = s_jobs \cup {j}
    /\ UNCHANGED <<s_now, s_mutex, s_cleared, s_wpc, s_cur, s_mpc, s_last,
                   s_clearInExec, s_ran,
                   s_fail, s_nexted>>
    /\ UNCHANGED OutsideSched

\* clear_jobs, first statement: return at once when the queue is empty,
\* otherwise go on to take the mutex
ClearJobsCheck ==
    /\ s_mpc = "idle"
    /\ IF s_jobs = {}
       THEN /\ s_clearInExec' = (s_clearInExec \/ s_wpc = "call")
            /\ UNCHANGED s_mpc
       ELSE /\ s_mpc' = "clear_lock"
            /\ UNCHANGED s_clearInExec
    /\ UNCHANGED <<s_now, s_jobs, s_next, s_ival, s_thread, s_created,
                   s_mutex, s_cleared, s_wpc, s_cur, s_last, s_ran,
                   s_fail, s_nexted>>
    /\ UNCHANGED OutsideSched

\* clear_jobs, under the mutex: _cleared = True; _jobs = PriorityQueue()
ClearJobsLocked ==
    /\ s_mpc = "clear_lock"
    /\ s_mutex = "free"
    /\ s_cleared' = TRUE
    /\ s_jobs' = {}
    /\ s_mpc' = "idle"
    /\ s_clearInExec' = (s_clearInExec \/ s_wpc = "call")
    /\ UNCHANGED <<s_now, s_next, s_ival, s_thread, s_created, s_mutex,
                   s_wpc, s_cur, s_last, s_ran,
                   s_fail, s_nexted>>
    /\ UNCHANGED OutsideSched

\* _do_next_job: with self._mutex
WorkerLock ==
    /\ s_wpc = "lock"
    /\ s_mutex = "free"
    /\ s_mutex' = "worker"
    /\ s_wpc' = "peek"
    /\ UNCHANGED <<s_now, s_jobs, s_next, s_ival, s_thread, s_created,
                   s_cleared, s_cur, s_mpc, s_last, s_clearInExec, s_ran,
                   s_fail, s_nexted>>
    /\ UNCHANGED OutsideSched

\* the waiting loop left at once, whatever the duration
DueAlways(duration) == TRUE

\* if duration <= 0: break
Due(duration) == duration <= 0

\* _do_next_job: one round of the waiting loop.  peek() blocks on an empty
\* queue; a job that is due ends the loop, otherwise the mutex is released
\* for the sleep.
WorkerPeek ==
    /\ s_wpc = "peek"
    /\ s_jobs # {}
    /\ \E job \in Earliest(s_jobs) :
        LET difference == s_next[job] - s_now
            duration == Min(difference, min_reaction_time)
        IN IF Due(duration)
           THEN /\ s_wpc' = "get"
                /\ UNCHANGED s_mutex
           ELSE /\ s_wpc' = "sleep"
                /\ s_mutex' = "free"
    /\ UNCHANGED <<s_now, s_jobs, s_next, s_ival, s_thread, s_created,
                   s_cleared, s_cur, s_mpc, s_last, s_clearInExec, s_ran,
                   s_fail, s_nexted>>
    /\ UNCHANGED OutsideSched

\* _do_next_job: time.sleep(duration) ends (a signal may end it early) and
\* the mutex is taken again
WorkerWake ==
    /\ s_wpc = "sleep"
    /\ s_mutex = "free"
    /\ s_mutex' = "worker"
    /\ s_wpc' = "peek"
    /\ UNCHANGED <<s_now, s_jobs, s_next, s_ival, s_thread, s_created,
                   s_cleared, s_cur, s_mpc, s_last, s_clearInExec, s_ran,
                   s_fail, s_nexted>>
    /\ UNCHANGED OutsideSched

\* _do_next_job: _cleared = False; job = _jobs.get(); release the mutex
WorkerGet ==
    /\ s_wpc = "get"
    /\ s_jobs # {}
    /\ \E job \in Earliest(s_jobs) :
        /\ s_cur' = job
        /\ s_jobs' = s_jobs \ {job}
    /\ s_cleared' = FALSE
    /\ s_clearInExec' = FALSE
    /\ s_fail' = FALSE
    /\ s_nexted' = FALSE
    /\ s_mutex' = "free"
    /\ s_wpc' = "call"
    /\ UNCHANGED <<s_now, s_next, s_ival, s_thread, s_created, s_mpc,
                   s_last, s_ran>>
    /\ UNCHANGED OutsideSched

\* _do_next_job and _call: the handler is called (inline: it has run to its
\* end when this step is taken; thread: its thread has been started); an
\* exception it raises is caught in _call and reported, so the statement
\* after the call is reached either way
WorkerCall ==
    /\ s_wpc = "call"
    /\ s_ran' = s_ran \cup {s_cur}
    /\ s_fail' \in BOOLEAN
    /\ s_wpc' = "next"
    /\ UNCHANGED <<s_now, s_jobs, s_next, s_ival, s_thread, s_created,
                   s_mutex, s_cleared, s_cur, s_mpc, s_last, s_clearInExec,
                   s_nexted>>
    /\ UNCHANGED OutsideSched

\* _do_next_job: job.next()
WorkerNext ==
    /\ s_wpc = "next"
    /\ s_next' = [s_next EXCEPT
                     ![s_cur] = JobNext(s_next[s_cur], s_now, s_ival[s_cur])]
    /\ s_nexted' = TRUE
    /\ s_wpc' = "put"
    /\ UNCHANGED <<s_now, s_jobs, s_ival, s_thread, s_created, s_mutex,
                   s_cleared, s_cur, s_mpc, s_last, s_clearInExec, s_ran,
                   s_fail>>
    /\ UNCHANGED OutsideSched

\* _do_next_job: the mutex is taken again; if not self._cleared:
\* self._jobs.put(job); the mutex is released at the end of the with block
WorkerPut ==
    /\ s_wpc = "put"
    /\ s_mutex = "free"
    /\ s_jobs' = IF s_cleared THEN s_jobs ELSE s_jobs \cup {s_cur}
    /\ s_last' = s_cur
    /\ s_cur' = 0
    /\ s_wpc' = "lock"
    /\ UNCHANGED <<s_now, s_next, s_ival, s_thread, s_created, s_mutex,
                   s_cleared, s_mpc, s_clearInExec, s_ran,
                   s_fail, s_nexted>>
    /\ UNCHANGED OutsideSched

NextSched ==
    \/ SchedTick
    \/ AddJob
    \/ ClearJobsCheck
    \/ ClearJobsLocked
    \/ WorkerLock
    \/ WorkerPeek
    \/ WorkerWake
    \/ WorkerGet
    \/ WorkerCall
    \/ WorkerNext
    \/ WorkerPut

InitSched ==
    /\ JobIdle
    /\ SchedInit
    /\ CallInit
    /\ DispIdle
    /\ CapInit
    /\ RejoinInit
    /\ MainIdle
    /\ NamesInit
    /\ UnregInit
    /\ BlocksInit
    /\ SetupIdle
    /\ ConfigInit
    /\ CapLSIdle
    /\ RaceInit
    /\ JoinInit
    /\ TierInit
    /\ ModesInit
    /\ TrackIdle
    /\ ShutIdle
    /\ BootIdle
    /\ RegIdle

SpecSched == InitSched /\ [][NextSched]_vars

\* C3: if clear_jobs() is called (and returns) while the worker has taken a
\* job out of the queue and is executing its handler, that job is not put
\* back into the queue when the worker finishes the round.
C3_NoRequeueAfterClear ==
    (s_clearInExec /\ s_cur = 0 /\ s_last # 0) => s_last \notin s_jobs

\* C26: whenever the worker takes a job out of the queue to execute it,
\* no queued job has an earlier next_time and, the clock never going back,
\* the job's next_time is not later than the current time, also when
\* add_job has put jobs into the queue since the worker looked at it.
C26_NextDue ==
    [][(s_wpc = "get" /\ s_wpc' = "call") =>
        /\ \A k \in s_jobs : s_next[s_cur'] <= s_next[k]
        /\ s_next[s_cur'] <= s_now]_vars

\* a due job is being executed while a job that is not due waits
C26_Witness ==
    /\ s_wpc = "call"
    /\ s_next[s_cur] <= s_now
    /\ \E k \in s_jobs : s_next[k] > s_now

(***************************************************************************)
(* Sopel.call: rate-limited invocation of a handler                        *)
(***************************************************************************)

\* Largest clock reading while handlers are invoked
MaxCallClock == 2
\* func.rate of the handlers, in seconds
Rate == 2

\* func.rate
FuncRate(f) == Rate

\* func.unblockable
FuncUnblockable(f) == f = "core"

\* func.thread
FuncThread(f) == f = "cmd"

\* trigger.admin
TriggerAdmin(nick) == nick = "adm"

\* what a handler body can do: return the sentinel, return anything else,
\* raise
Outcomes == {"NOLIMIT", "value", "raise"}

\* call() lines 641-645 with the timestamp test inverted to timediff >= rate
RateLimitedInverted(nick, func, now) ==
    /\ ~TriggerAdmin(nick)
    /\ ~FuncUnblockable(func)
    /\ c_times[nick][func] # -1
    /\ now - c_times[nick][func] >= FuncRate(func)

\* call() lines 641-645: the invocation is to be skipped
RateLimited(nick, func, now) ==
    /\ ~TriggerAdmin(nick)
    /\ ~FuncUnblockable(func)
    /\ c_times[nick][func] # -1
    /\ now - c_times[nick][func] < FuncRate(func)

\* call() line 663 with the sentinel test dropped
RecordsAlways(exit_code) == TRUE

\* call() line 663: exit_code != module.NOLIMIT; a handler that raised has
\* exit_code None
Records(exit_code) == exit_code # "NOLIMIT"

\* The clock advances
CallTick ==
    /\ c_now < MaxCallClock
    /\ c_now' = c_now + 1
    /\ UNCHANGED <<c_known, c_times, c_inv, c_n>>
    /\ UNCHANGED OutsideCall

\* dispatch() lines 711-716: call(func, origin, wrapper, trigger) is started,
\* on a new thread if func.thread and inline otherwise; an inline call keeps
\* the dispatching thread until it returns
Invoke ==
    /\ c_n < MaxInvs
    /\ \A i \in Invs : c_inv[i].pc \in {"idle", "done"}
                          \/ FuncThread(c_inv[i].func)
    /\ \E nick \in CallNicks, func \in CallFuncs :
        c_inv' = [c_inv EXCEPT ![c_n + 1] =
                    [NoInv EXCEPT !.nick = nick, !.func = func,
                                  !.pc = "test"]]
    /\ c_n' = c_n + 1
    /\ UNCHANGED <<c_now, c_known, c_times>>
    /\ UNCHANGED OutsideCall

\* call() line 638: if nick not in self.times
CallTestNick(i) ==
    /\ c_inv[i].pc = "test"
    /\ c_inv' = [c_inv EXCEPT ![i].pc =
                    IF c_inv[i].nick \in c_known THEN "check" ELSE "setnick"]
    /\ UNCHANGED <<c_now, c_known, c_times, c_n>>
    /\ UNCHANGED OutsideCall

\* call() line 639: self.times[nick] = dict()
CallSetNick(i) ==
    /\ c_inv[i].pc = "setnick"
    /\ c_known' = c_known \cup {c_inv[i].nick}
    /\ c_times' = [c_times EXCEPT ![c_inv[i].nick] = [f \in CallFuncs |-> -1]]
    /\ c_inv' = [c_inv EXCEPT ![i].pc = "check"]
    /\ UNCHANGED <<c_now, c_n>>
    /\ UNCHANGED OutsideCall

\* call() lines 641-658: the rate test; a limited invocation refreshes the
\* timestamp and returns, any other enters the handler body
CallCheck(i) ==
    /\ c_inv[i].pc = "check"
    /\ LET nick == c_inv[i].nick
           func == c_inv[i].func
       IN IF RateLimited(nick, func, c_now)
          THEN /\ c_times' = [c_times EXCEPT ![nick][func] = c_now]
               /\ c_inv' = [c_inv EXCEPT ![i].pc = "done",
                                         ![i].t_check = c_now,
                                         ![i].exit_code = "skipped"]
          ELSE /\ c_inv' = [c_inv EXCEPT ![i].pc = "body",
                                         ![i].t_check = c_now,
                                         ![i].executed = TRUE]
               /\ UNCHANGED c_times
    /\ UNCHANGED <<c_now, c_known, c_n>>
    /\ UNCHANGED OutsideCall

\* call() lines 658-664: the handler returns or raises (the exception is
\* caught and reported); unless it returned NOLIMIT the time is recorded
CallReturn(i) ==
    /\ c_inv[i].pc = "body"
    /\ \E out \in Outcomes :
        /\ c_inv' = [c_inv EXCEPT ![i].pc = "done", ![i].exit_code = out]
        /\ c_times' = IF Records(out)
                      THEN [c_times EXCEPT
                              ![c_inv[i].nick][c_inv[i].func] = c_now]
                      ELSE c_times
    /\ UNCHANGED <<c_now, c_known, c_n>>
    /\ UNCHANGED OutsideCall

NextCall ==
    \/ CallTick
    \/ Invoke
    \/ \E i \in Invs : CallTestNick(i)
    \/ \E i \in Invs : CallSetNick(i)
    \/ \E i \in Invs : CallCheck(i)
    \/ \E i \in Invs : CallReturn(i)

InitCall ==
    /\ JobIdle
    /\ SchedInit
    /\ CallInit
    /\ DispIdle
    /\ CapInit
    /\ RejoinInit
    /\ MainIdle
    /\ NamesInit
    /\ UnregInit
    /\ BlocksInit
    /\ SetupIdle
    /\ ConfigInit
    /\ CapLSIdle
    /\ RaceInit
    /\ JoinInit
    /\ TierInit
    /\ ModesInit
    /\ TrackIdle
    /\ ShutIdle
    /\ BootIdle
    /\ RegIdle

SpecCall == InitCall /\ [][NextCall]_vars

\* C1: of two invocations of call() by the same non-admin nick for the same
\* handler (rate > 0, not unblockable) whose rate tests read clocks less
\* than rate seconds apart, the first not returning NOLIMIT, the second does
\* not execute the handler body - for every interleaving of the two.
C1_RateLimit ==
    \A i, j \in Invs :
        (/\ i < j
         /\ c_inv[i].pc = "done"
         /\ c_inv[j].pc \in {"body", "done"}
         /\ c_inv[i].nick = c_inv[j].nick
         /\ c_inv[i].func = c_inv[j].func
         /\ ~TriggerAdmin(c_inv[i].nick)
         /\ ~FuncUnblockable(c_inv[i].func)
         /\ FuncRate(c_inv[i].func) > 0
         /\ c_inv[i].t_check <= c_inv[j].t_check
         /\ c_inv[j].t_check - c_inv[i].t_check < FuncRate(c_inv[i].func)
         /\ c_inv[i].exit_code # "NOLIMIT")
        => ~c_inv[j].executed

\* invocation i leaves the handler body in this step
Returns(i) == c_inv[i].pc = "body" /\ c_inv'[i].pc = "done"

\* the step in which invocation i returns from the handler leaves every
\* timestamp alone after NOLIMIT and sets that of its (nick, handler) pair to
\* the clock reading otherwise
SentinelStep ==
    \A i \in Invs :
        Returns(i) =>
            IF c_inv'[i].exit_code = "NOLIMIT"
            THEN c_times' = c_times
            ELSE c_times' = [c_times EXCEPT
                               ![c_inv[i].nick][c_inv[i].func] = c_now]

\* a skipped invocation was limited by a timestamp that goes back to an
\* invocation of the same pair that returned something else than NOLIMIT
SkippedForCause ==
    \A j \in Invs :
        c_inv[j].exit_code = "skipped" =>
            \E i \in Invs :
                /\ i # j
                /\ c_inv[i].nick = c_inv[j].nick
                /\ c_inv[i].func = c_inv[j].func
                /\ c_inv[i].exit_code \in {"value", "raise"}

\* C12: when the handler invoked through call() returns NOLIMIT, that
\* invocation leaves the (nick, handler) timestamp unchanged, so a repeated
\* invocation is never skipped because of it; when the handler returns
\* anything else or raises, the clock reading is recorded.
C12_NoLimitSentinel == []SkippedForCause /\ [][SentinelStep]_vars

\* the handler returned NOLIMIT and the same nick is in its body again at once
C12_Witness ==
    /\ c_inv[1].pc = "done"
    /\ c_inv[1].exit_code = "NOLIMIT"
    /\ c_inv[2].pc = "body"
    /\ c_inv[2].nick = c_inv[1].nick
    /\ c_inv[2].func = c_inv[1].func
    /\ c_inv[2].t_check = c_inv[1].t_check
    /\ ~TriggerAdmin(c_inv[1].nick)
    /\ ~FuncUnblockable(c_inv[1].func)

(***************************************************************************)
(* Sopel.dispatch: block lists, admin bypass, event filter, channel limit  *)
(***************************************************************************)

\* The strings of the model and what the string operations of the source
\* do on them
Lower(x) == IF x = "BAD" THEN "bad" ELSE x

\* str.strip
Strip(x) == IF x = " joe" THEN "joe" ELSE x

\* re.match(pattern + '$', x, re.IGNORECASE): the patterns of the model are
\* literals and ".*"
ReMatch(pattern, x) == pattern = ".*" \/ Lower(pattern) = Lower(x)

\* re.compile(pattern).findall(x) is not empty: no pattern of the model is
\* a proper part of a host of the model
ReFind(pattern, x) == pattern = ".*" \/ pattern = x

\* Nick(a) == b: identifiers compare case-insensitively
NickEq(a, b) == Lower(a) = Lower(b)

Range(q) == {q[i] : i \in 1..Len(q)}

\* _nick_blocked(nick)
NickBlocked(nick) ==
    \E bad_nick \in Range(d_nick_blocks) :
        /\ Strip(bad_nick) # ""
        /\ ReMatch(Strip(bad_nick), nick) \/ NickEq(Strip(bad_nick), nick)

\* _host_blocked(host)
HostBlocked(host) ==
    \E bad_mask \in Range(d_host_blocks) :
        /\ Strip(bad_mask) # ""
        /\ ReMatch(Strip(bad_mask), host) \/ Strip(bad_mask) = host

\* dispatch() lines 679-683: the block lists are consulted only when one of
\* them is not empty
LineNickBlocked(line) ==
    (d_nick_blocks # <<>> \/ d_host_blocks # <<>>) /\ NickBlocked(line.nick)

LineHostBlocked(line) ==
    (d_nick_blocks # <<>> \/ d_host_blocks # <<>>) /\ HostBlocked(line.host)

\* Trigger.__new__ lines 568-602: s.owner
LineOwner(line) ==
    IF Len(d_owner) = 2
    THEN line.nick = d_owner[1] /\ line.host = d_owner[2]
    ELSE NickEq(line.nick, d_owner[1])

\* Trigger.__new__ lines 568-602: s.admin (a nick of core.admins, a host
\* found by an admin entry or by the host part of a nick@host entry, or the
\* owner)
LineAdmin(line) ==
    \/ \E a \in Range(d_admins) : Len(a) = 1 /\ NickEq(a[1], line.nick)
    \/ \E a \in Range(d_admins) : Len(a) = 1 /\ ReFind(a[1], line.host)
    \/ \E a \in Range(d_admins) : Len(a) = 2 /\ ReFind(a[2], line.host)
    \/ LineOwner(line)

\* The handlers bound by bind_commands and their attributes
DispFuncs == {"track", "help", "help2", "seen", "echo"}

HUnblockable(f) == f = "track"

HEvent(f) == IF f = "seen" THEN "JOIN" ELSE "PRIVMSG"

HThread(f) == f \in {"help", "help2", "seen"}

\* self.commands: per priority the patterns with their handler lists
Commands ==
    [high   |-> <<[re |-> "any", funcs |-> <<"track">>]>>,
     medium |-> <<[re |-> "help", funcs |-> <<"help", "help2">>],
                  [re |-> "any", funcs |-> <<"seen">>]>>,
     low    |-> <<[re |-> "any", funcs |-> <<"echo">>]>>]

\* regexp.match(text)
Matches(re, text) == re = "any" \/ (re = "help" /\ text = ".help")

RECURSIVE Concat(_)
Concat(qs) == IF qs = <<>> THEN <<>> ELSE Head(qs) \o Concat(Tail(qs))

\* The handlers of the patterns of one tier that match, in table order
TierFuncs(tier, text) ==
    Concat([k \in 1..Len(Commands[tier]) |->
              IF Matches(Commands[tier][k].re, text)
              THEN Commands[tier][k].funcs ELSE <<>>])

\* The tiers walked from low to high
CandidatesLowFirst(text) ==
    TierFuncs("low", text) \o TierFuncs("medium", text)
        \o TierFuncs("high", text)

\* dispatch() lines 686-697: every handler the loops reach for the text
Candidates(text) ==
    TierFuncs("high", text) \o TierFuncs("medium", text)
        \o TierFuncs("low", text)

\* limit(origin, func): for a channel line with a limit section the source
\* evaluates self.config.limit.get(origin.sender); a ConfigSection has no
\* get method and its __getattr__ answers None, so the call raises
\* TypeError; in every other case limit() returns False
Limit(line, f) ==
    IF line.sender = "#chan" /\ d_limit THEN "TypeError" ELSE "False"

\* dispatch() lines 698-716 without the admin bypass
HandlerStepNoAdmin(line, f) ==
    IF ~HUnblockable(f) /\ (LineNickBlocked(line) \/ LineHostBlocked(line))
    THEN "blocked"
    ELSE IF line.event # HEvent(f) THEN "event"
    ELSE IF Limit(line, f) = "TypeError" THEN "raise"
    ELSE "start"

\* dispatch() lines 698-716 with only the nick list consulted
HandlerStepNickOnly(line, f) ==
    IF ~LineAdmin(line) /\ ~HUnblockable(f) /\ LineNickBlocked(line)
    THEN "blocked"
    ELSE IF line.event # HEvent(f) THEN "event"
    ELSE IF Limit(line, f) = "TypeError" THEN "raise"
    ELSE "start"

\* dispatch() lines 698-716: what the inner loop does with one handler
HandlerStep(line, f) ==
    IF ~LineAdmin(line) /\ ~HUnblockable(f)
       /\ (LineNickBlocked(line) \/ LineHostBlocked(line))
    THEN "blocked"
    ELSE IF line.event # HEvent(f) THEN "event"
    ELSE IF Limit(line, f) = "TypeError" THEN "raise"
    ELSE "start"

\* call() without its try/except: the exception of a handler that runs on
\* the dispatching thread leaves call()
CallPropagatesInline(f) == f \in d_fail /\ ~HThread(f)

\* call() lines 657-661: an exception of the handler body is caught and
\* reported, none leaves call()
CallPropagates(f) == FALSE

\* the loops end at this handler: limit() raises before it is started, or
\* it is started and its exception leaves call()
StopsAt(line, f) ==
    \/ HandlerStep(line, f) = "raise"
    \/ HandlerStep(line, f) = "start" /\ CallPropagates(f)

\* The candidates the loops work through: all of them, or those up to the
\* one at which an exception ends dispatch()
Reached(line) ==
    LET c == Candidates(line.text)
        stop == {k \in 1..Len(c) : StopsAt(line, c[k])}
    IN IF stop = {} THEN c
       ELSE LET k == CHOOSE n \in stop : \A m \in stop : n <= m
            IN IF HandlerStep(line, c[k]) = "raise"
               THEN SubSeq(c, 1, k - 1)
               ELSE SubSeq(c, 1, k)

DispRaises(line) ==
    \E k \in 1..Len(Candidates(line.text)) :
        StopsAt(line, Candidates(line.text)[k])

IsStart(line, f) == HandlerStep(line, f) = "start"

IsBlocked(line, f) == HandlerStep(line, f) = "blocked"

RECURSIVE Filter(_, _, _)
Filter(q, line, what) ==
    IF q = <<>> THEN <<>>
    ELSE (IF HandlerStep(line, Head(q)) = what THEN <<Head(q)>> ELSE <<>>)
             \o Filter(Tail(q), line, what)

DispNicks == {"bad", "BAD", "joe", "adm", "own"}
DispHosts == {"evil.net", "ops.net", "home"}
DispSenders == {"#chan", "pm"}
DispEvents == {"PRIVMSG", "JOIN"}
DispTexts == {".help", "hi"}

\* The connection layer hands one complete incoming line to dispatch()
Receive ==
    /\ d_pc = "idle"
    /\ \E nick \in DispNicks, host \in DispHosts, sender \in DispSenders,
          event \in DispEvents, text \in DispTexts :
        d_line' = [nick |-> nick, host |-> host, sender |-> sender,
                   event |-> event, text |-> text]
    /\ d_pc' = "recv"
    /\ d_fail' = {}
    /\ UNCHANGED <<d_nick_blocks, d_host_blocks, d_admins, d_owner, d_limit,
                   d_started, d_blocked, d_debug, d_raised, d_errors>>
    /\ UNCHANGED OutsideDisp

\* The connection layer hands over a line on which some handler bodies
\* raise an exception
ReceiveFailing ==
    /\ d_pc = "idle"
    /\ \E nick \in DispNicks, host \in DispHosts, sender \in DispSenders,
          event \in DispEvents, text \in DispTexts :
        d_line' = [nick |-> nick, host |-> host, sender |-> sender,
                   event |-> event, text |-> text]
    /\ d_fail' \in SUBSET DispFuncs
    /\ d_pc' = "recv"
    /\ UNCHANGED <<d_nick_blocks, d_host_blocks, d_admins, d_owner, d_limit,
                   d_started, d_blocked, d_debug, d_raised, d_errors>>
    /\ UNCHANGED OutsideDisp

\* dispatch(origin, text, args) for the line
Dispatch ==
    /\ d_pc = "recv"
    /\ LET reached == Reached(d_line)
           blocked == Filter(reached, d_line, "blocked")
           raises == DispRaises(d_line)
       IN /\ d_started' = Filter(reached, d_line, "start")
          /\ d_blocked' = blocked
          /\ d_raised' = raises
          /\ d_errors' = {f \in Range(Filter(reached, d_line, "start")) :
                            f \in d_fail /\ ~CallPropagates(f)}
          /\ d_debug' =
               IF raises \/ blocked = <<>> THEN "none"
               ELSE IF LineNickBlocked(d_line) /\ LineHostBlocked(d_line)
                    THEN "both"
               ELSE IF LineNickBlocked(d_line) THEN "nick"
               ELSE "host"
    /\ d_pc' = "done"
    /\ UNCHANGED <<d_nick_blocks, d_host_blocks, d_admins, d_owner, d_limit,
                   d_line, d_fail>>
    /\ UNCHANGED OutsideDisp

\* dispatch() has returned; the connection layer reads the next line
NextLine ==
    /\ d_pc = "done"
    /\ d_pc' = "idle"
    /\ d_line' = NoLine
    /\ d_started' = <<>>
    /\ d_blocked' = <<>>
    /\ d_debug' = "none"
    /\ d_raised' = FALSE
    /\ d_fail' = {}
    /\ d_errors' = {}
    /\ UNCHANGED <<d_nick_blocks, d_host_blocks, d_admins, d_owner, d_limit>>
    /\ UNCHANGED OutsideDisp

NextDisp ==
    \/ Receive
    \/ Dispatch
    \/ NextLine

InitDisp ==
    /\ JobIdle
    /\ SchedInit
    /\ CallInit
    /\ DispInit
    /\ CapInit
    /\ RejoinInit
    /\ MainIdle
    /\ NamesInit
    /\ UnregInit
    /\ BlocksInit
    /\ SetupIdle
    /\ ConfigInit
    /\ CapLSIdle
    /\ RaceInit
    /\ JoinInit
    /\ TierInit
    /\ ModesInit
    /\ TrackIdle
    /\ ShutIdle
    /\ BootIdle
    /\ RegIdle

SpecDispatch == InitDisp /\ [][NextDisp]_vars

\* the origin nick matches an entry of nick_blocks / the origin host an
\* entry of host_blocks
OriginBlocked ==
    NickBlocked(d_line.nick) \/ HostBlocked(d_line.host)

\* C2: after dispatch() of a line, (a) if the origin nick matches an entry
\* of nick_blocks or the origin host an entry of host_blocks and the origin
\* is neither admin nor owner, no handler that is not unblockable was
\* invoked; (b) a handler that is unblockable, or any handler when the
\* origin is admin or owner, is never skipped because of the block lists.
C2_BlockAndBypass ==
    d_pc = "done" =>
        /\ (OriginBlocked /\ ~LineAdmin(d_line))
              => \A f \in Range(d_started) : HUnblockable(f)
        /\ \A f \in Range(d_blocked) :
              ~HUnblockable(f) /\ ~LineAdmin(d_line) /\ OriginBlocked
        /\ \A f \in Range(Candidates(d_line.text)) :
              (/\ HUnblockable(f) \/ LineAdmin(d_line)
               /\ d_line.event = HEvent(f)
               /\ ~d_raised)
              => f \in Range(d_started)

\* a blocked non-admin origin: the blockable handlers are skipped, the
\* unblockable one runs
C2_Witness ==
    /\ d_pc = "done"
    /\ NickBlocked(d_line.nick)
    /\ ~LineAdmin(d_line)
    /\ d_blocked = <<"help", "help2", "seen", "echo">>
    /\ d_started = <<"track">>

\* func.__module__: the module that owns the handler
HModule(f) ==
    IF f = "track" THEN "coretasks"
    ELSE IF f \in {"help", "help2"} THEN "help"
    ELSE f

\* the [limit] section of the configuration file: the modules listed
\* under the name of the channel
LimitEntry(sender) ==
    IF sender = "#chan" THEN {"coretasks", "help"} ELSE {}

\* C29: with a limit section that has an entry for the channel of the line,
\* a matching handler of the line's event that the block lists let through
\* is invoked if and only if its module is listed in the entry.
C29_ModuleLimit ==
    (d_pc = "done" /\ d_limit /\ LimitEntry(d_line.sender) # {})
    => \A f \in Range(Candidates(d_line.text)) :
          (d_line.event = HEvent(f) /\ ~IsBlocked(d_line, f))
          => (f \in Range(d_started)
                <=> HModule(f) \in LimitEntry(d_line.sender))

(***************************************************************************)
(* Sopel.cap_req: the capability request registry                          *)
(***************************************************************************)

\* Largest number of entries the registry _cap_reqs holds, all capabilities
\* together
MaxCapEntries == 2

\* the prefixes of a capability argument: prohibit, require, request
Prefixes == {"-", "=", ""}

HasProhibit(entry) == \E i \in 1..Len(entry) : entry[i][1] = "-"

HasOther(entry) == \E i \in 1..Len(entry) : entry[i][1] # "-"

\* cap_req without the any(...) conflict tests
CapReqResultNoConflict(prefix, cap) ==
    IF prefix = "-"
    THEN IF k_registered /\ cap \in k_enabled THEN "too_late" ELSE "ok"
    ELSE IF k_registered /\ cap \notin k_enabled THEN "too_late" ELSE "ok"

\* cap_req with the too-late tests of the two branches exchanged
CapReqResultSwapped(prefix, cap) ==
    IF prefix = "-"
    THEN IF k_registered /\ cap \notin k_enabled THEN "too_late"
         ELSE IF HasOther(k_cap_reqs[cap]) THEN "conflict"
         ELSE "ok"
    ELSE IF k_registered /\ cap \in k_enabled THEN "too_late"
         ELSE IF HasProhibit(k_cap_reqs[cap]) THEN "conflict"
         ELSE "ok"

\* cap_req lines 840-861: which exception the call raises, or "ok"
CapReqResult(prefix, cap) ==
    IF prefix = "-"
    THEN IF k_registered /\ cap \in k_enabled THEN "too_late"
         ELSE IF HasOther(k_cap_reqs[cap]) THEN "conflict"
         ELSE "ok"
    ELSE IF k_registered /\ cap \notin k_enabled THEN "too_late"
         ELSE IF HasProhibit(k_cap_reqs[cap]) THEN "conflict"
         ELSE "ok"

\* cap_req(module_name, prefix + cap, failure_callback)
CapReq ==
    /\ \E prefix \in Prefixes, cap \in Caps, module \in CapModules :
        /\ CapReqResult(prefix, cap) = "ok" =>
               Len(k_cap_reqs["sasl"]) + Len(k_cap_reqs["away-notify"])
                   < MaxCapEntries
        /\ k_call' = [prefix |-> prefix, cap |-> cap, module |-> module,
                      registered |-> k_registered,
                      enabled |-> cap \in k_enabled]
        /\ k_before' = k_cap_reqs
        /\ k_result' = CapReqResult(prefix, cap)
        /\ k_cap_reqs' =
             IF CapReqResult(prefix, cap) = "ok"
             THEN [k_cap_reqs EXCEPT
                     ![cap] = Append(k_cap_reqs[cap], <<prefix, module>>)]
             ELSE k_cap_reqs
    /\ UNCHANGED <<k_registered, k_enabled>>
    /\ UNCHANGED OutsideCap

\* coretasks.startup line 49: bot.connection_registered = True
CapStartup ==
    /\ ~k_registered
    /\ k_registered' = TRUE
    /\ UNCHANGED <<k_cap_reqs, k_enabled, k_call, k_before, k_result>>
    /\ UNCHANGED OutsideCap

\* The server enables a capability during negotiation: the set
\* enabled_capabilities is maintained outside the files at hand
CapEnable ==
    /\ ~k_registered
    /\ \E cap \in Caps \ k_enabled : k_enabled' = k_enabled \cup {cap}
    /\ UNCHANGED <<k_cap_reqs, k_registered, k_call, k_before, k_result>>
    /\ UNCHANGED OutsideCap

NextCap ==
    \/ CapReq
    \/ CapStartup
    \/ CapEnable

InitCap ==
    /\ JobIdle
    /\ SchedInit
    /\ CallInit
    /\ DispIdle
    /\ CapInit
    /\ RejoinInit
    /\ MainIdle
    /\ NamesInit
    /\ UnregInit
    /\ BlocksInit
    /\ SetupIdle
    /\ ConfigInit
    /\ CapLSIdle
    /\ RaceInit
    /\ JoinInit
    /\ TierInit
    /\ ModesInit
    /\ TrackIdle
    /\ ShutIdle
    /\ BootIdle
    /\ RegIdle

SpecCap == InitCap /\ [][NextCap]_vars

\* the latest call asked for the opposite of an entry the capability had
CallConflicts ==
    \/ k_call.prefix = "-" /\ HasOther(k_before[k_call.cap])
    \/ k_call.prefix # "-" /\ HasProhibit(k_before[k_call.cap])

\* the latest call was accepted: its entry was appended, nothing else changed
CallAccepted ==
    /\ k_result = "ok"
    /\ k_cap_reqs = [k_before EXCEPT
                       ![k_call.cap] = Append(k_before[k_call.cap],
                                              <<k_call.prefix, k_call.module>>)]

\* C6: no capability ever has both a '-' entry and a '=' or unprefixed
\* entry; a cap_req call made before registration raises a conflict and
\* leaves the registry unchanged when the capability has an entry of the
\* opposite kind, and is accepted and appended otherwise (so repeated
\* requests of one kind accumulate).
C6_CapConflict ==
    /\ \A c \in Caps : ~(HasProhibit(k_cap_reqs[c]) /\ HasOther(k_cap_reqs[c]))
    /\ (k_call # NoCall /\ ~k_call.registered) =>
          IF CallConflicts
          THEN k_result = "conflict" /\ k_cap_reqs = k_before
          ELSE CallAccepted

\* '=sasl' from modules a and b are both kept; '-sasl' then conflicts
C6_Witness ==
    /\ ~k_registered
    /\ k_cap_reqs["sasl"] = <<<<"=", "a">>, <<"=", "b">>>>
    /\ k_call = [prefix |-> "-", cap |-> "sasl", module |-> "b",
                 registered |-> FALSE, enabled |-> FALSE]
    /\ k_before = k_cap_reqs
    /\ k_result = "conflict"

\* the latest call agrees with the enabled/disabled state of its capability
CallAgrees ==
    IF k_call.prefix = "-" THEN ~k_call.enabled ELSE k_call.enabled

\* C7 as stated: once the connection is registered, a request against the
\* established state is rejected and adds no entry, and a request that
\* agrees with the established state is accepted.
C7_TooLateAsStated ==
    (k_call # NoCall /\ k_call.registered) =>
        IF CallAgrees
        THEN CallAccepted
        ELSE k_result # "ok" /\ k_cap_reqs = k_before

\* C7, amended: once the connection is registered, a request against the
\* established state is rejected as too late and adds no entry; a request
\* that agrees with the established state is accepted unless the capability
\* has an entry of the opposite kind, in which case it raises a conflict and
\* adds no entry either.
C7_TooLate ==
    (k_call # NoCall /\ k_call.registered) =>
        IF ~CallAgrees
        THEN k_result = "too_late" /\ k_cap_reqs = k_before
        ELSE IF CallConflicts
             THEN k_result = "conflict" /\ k_cap_reqs = k_before
             ELSE CallAccepted

\* after registration '-sasl' is rejected while sasl is enabled
C7_Witness ==
    /\ k_call.registered
    /\ k_call.prefix = "-"
    /\ k_call.cap = "sasl"
    /\ k_call.enabled
    /\ k_result = "too_late"

(***************************************************************************)
(* coretasks.retry_join: rejoining a channel after a 477 denial            *)
(***************************************************************************)

\* Largest number of 477 replies handled for one channel
MaxDenials == 13

\* the retry limit of retry_join and the retries the claim counts
RetryLimit == 10

\* startup lines 71-73: reset the counters and join the configured channels
RejoinStartup ==
    /\ ~r_started
    /\ r_started' = TRUE
    /\ r_memory' = [c \in Channels |-> -1]
    /\ r_pending' = Channels
    /\ UNCHANGED <<r_denials, r_joins, r_waits, r_warned>>
    /\ UNCHANGED OutsideRejoin

\* retry_join(bot, trigger) for a 477 reply that names the channel
RetryJoin(channel) ==
    /\ r_started
    /\ channel \in r_pending
    /\ r_denials[channel] < MaxDenials
    /\ r_denials' = [r_denials EXCEPT ![channel] = @ + 1]
    /\ IF r_memory[channel] # -1
       THEN /\ r_memory' = [r_memory EXCEPT ![channel] = @ + 1]
            /\ IF r_memory[channel] + 1 > RetryLimit
               THEN /\ r_warned' = [r_warned EXCEPT ![channel] = @ + 1]
                    /\ r_pending' = r_pending \ {channel}
                    /\ UNCHANGED <<r_joins, r_waits>>
               ELSE /\ r_waits' = [r_waits EXCEPT ![channel] = @ + 1]
                    /\ r_joins' = [r_joins EXCEPT ![channel] = @ + 1]
                    /\ UNCHANGED <<r_warned, r_pending>>
       ELSE /\ r_memory' = [r_memory EXCEPT ![channel] = 0]
            /\ r_joins' = [r_joins EXCEPT ![channel] = @ + 1]
            /\ UNCHANGED <<r_waits, r_warned, r_pending>>
    /\ UNCHANGED r_started
    /\ UNCHANGED OutsideRejoin

\* The server answers 477 to a JOIN that is outstanding
Denial == \E channel \in Channels : RetryJoin(channel)

\* The server lets the bot into the channel: no further 477 for it
JoinAccepted ==
    /\ \E channel \in r_pending : r_pending' = r_pending \ {channel}
    /\ UNCHANGED <<r_started, r_memory, r_denials, r_joins, r_waits, r_warned>>
    /\ UNCHANGED OutsideRejoin

NextRejoin ==
    \/ RejoinStartup
    \/ Denial
    \/ JoinAccepted

InitRejoin ==
    /\ JobIdle
    /\ SchedInit
    /\ CallInit
    /\ DispIdle
    /\ CapInit
    /\ RejoinInit
    /\ MainIdle
    /\ NamesInit
    /\ UnregInit
    /\ BlocksInit
    /\ SetupIdle
    /\ ConfigInit
    /\ CapLSIdle
    /\ RaceInit
    /\ JoinInit
    /\ TierInit
    /\ ModesInit
    /\ TrackIdle
    /\ ShutIdle
    /\ BootIdle
    /\ RegIdle

SpecRejoin == InitRejoin /\ [][NextRejoin]_vars

\* C8: up to ten consecutive 477 denials of a channel each trigger one join
\* by the retry handler, every one after the first preceded by a 6 second
\* wait, and from the eleventh denial on the handler has sent ten joins,
\* has logged the warning and sends no further join.
C8_RejoinBound ==
    \A c \in Channels :
        /\ r_denials[c] <= RetryLimit =>
              /\ r_joins[c] = r_denials[c]
              /\ r_waits[c] = (IF r_denials[c] = 0 THEN 0 ELSE r_denials[c] - 1)
              /\ r_warned[c] = 0
        /\ r_denials[c] > RetryLimit =>
              /\ r_joins[c] = RetryLimit
              /\ r_warned[c] >= 1

\* What retry_join does: the eleventh denial is answered by an eleventh
\* join and the warning comes with the twelfth.
C8_RejoinAsCoded ==
    \A c \in Channels :
        /\ r_denials[c] <= RetryLimit + 1 =>
              /\ r_joins[c] = r_denials[c]
              /\ r_warned[c] = 0
        /\ r_denials[c] > RetryLimit + 1 =>
              /\ r_joins[c] = RetryLimit + 1
              /\ r_warned[c] = 1

(***************************************************************************)
(* JoikervgBot.main: the PID file, --quit, --kill and --fork               *)
(***************************************************************************)

\* tools.check_pid(pid): the process with that pid exists
CheckPid(pid) ==
    /\ pid \in Pids
    /\ m_procs[pid].pc \notin {"idle", "exited", "dead"}

Exit(r, status) == [r EXCEPT !.pc = "exited", !.status = status]

\* main() with the --quit test placed before the --kill test
SignalOfQuitFirst(r, has_sigusr1) ==
    IF r.quit
    THEN IF has_sigusr1 THEN "SIGUSR1" ELSE "SIGTERM"
    ELSE "SIGKILL"

\* lines 159-168: the signal main() sends to the recorded process
SignalOf(r, has_sigusr1) ==
    IF r.kill
    THEN "SIGKILL"
    ELSE IF has_sigusr1 THEN "SIGUSR1" ELSE "SIGTERM"

\* main() without the test for a running instance
AfterCheckNoConflict(r, isAlive) ==
    IF isAlive
    THEN IF r.kill
         THEN [r EXCEPT !.alive = "alive", !.msg = "killing", !.pc = "signal"]
         ELSE IF r.quit
              THEN [r EXCEPT !.alive = "alive", !.msg = "quitting",
                             !.pc = "signal"]
              ELSE [r EXCEPT !.alive = "alive", !.pc = "fork"]
    ELSE [r EXCEPT !.alive = "dead", !.pc = "check2"]

\* lines 154-164: the branch taken on the result of tools.check_pid(old_pid)
AfterCheck(r, isAlive) ==
    IF isAlive
    THEN IF ~r.quit /\ ~r.kill
         THEN Exit([r EXCEPT !.alive = "alive", !.msg = "conflict"], 1)
         ELSE IF r.kill
              THEN [r EXCEPT !.alive = "alive", !.msg = "killing",
                             !.pc = "signal"]
              ELSE [r EXCEPT !.alive = "alive", !.msg = "quitting",
                             !.pc = "signal"]
    ELSE [r EXCEPT !.alive = "dead", !.pc = "check2"]

\* A process starts main() with its command line flags
MainStart(p) ==
    /\ m_procs[p].pc = "idle"
    /\ \E q \in BOOLEAN, k \in BOOLEAN, d \in BOOLEAN :
         m_procs' = [m_procs EXCEPT ![p] = [NoProc EXCEPT !.pc = "isfile",
                                                         !.quit = q,
                                                         !.kill = k,
                                                         !.deamonize = d]]
    /\ UNCHANGED <<m_pid_file, m_has_sigusr1>>
    /\ UNCHANGED OutsideMain

\* line 150 and lines 173-175: os.path.isfile(pid_file_path)
MainIsFile(p) ==
    LET r == m_procs[p] IN
    /\ r.pc = "isfile"
    /\ m_procs' = [m_procs EXCEPT ![p] =
         IF m_pid_file # 0
         THEN [r EXCEPT !.file = "present", !.pc = "read"]
         ELSE IF r.quit \/ r.kill
              THEN Exit([r EXCEPT !.file = "absent", !.msg = "not_running"], 1)
              ELSE [r EXCEPT !.file = "absent", !.pc = "fork"]]
    /\ UNCHANGED <<m_pid_file, m_has_sigusr1>>
    /\ UNCHANGED OutsideMain

\* lines 151-153: old_pid = int(pid_file.read()); a file that is gone or
\* empty by now raises IOError or ValueError and main() ends with status 1
MainRead(p) ==
    LET r == m_procs[p] IN
    /\ r.pc = "read"
    /\ m_procs' = [m_procs EXCEPT ![p] =
         IF m_pid_file \in Pids
         THEN [r EXCEPT !.old_pid = m_pid_file, !.pc = "check"]
         ELSE Exit([r EXCEPT !.msg = "traceback"], 1)]
    /\ UNCHANGED <<m_pid_file, m_has_sigusr1>>
    /\ UNCHANGED OutsideMain

\* lines 154-164: tools.check_pid(old_pid) and the branch on the flags
MainCheck(p) ==
    LET r == m_procs[p] IN
    /\ r.pc = "check"
    /\ m_procs' = [m_procs EXCEPT ![p] = AfterCheck(r, CheckPid(r.old_pid))]
    /\ UNCHANGED <<m_pid_file, m_has_sigusr1>>
    /\ UNCHANGED OutsideMain

\* lines 161-162 and 165-169: os.kill(old_pid, signal) and sys.exit(0);
\* os.kill raises OSError when the process is gone by now
MainSignal(p) ==
    LET r == m_procs[p] IN
    /\ r.pc = "signal"
    /\ m_procs' = [m_procs EXCEPT ![p] =
         IF CheckPid(r.old_pid)
         THEN Exit([r EXCEPT !.target_alive = TRUE,
                             !.sent = Append(r.sent,
                                 [pid |-> r.old_pid,
                                  sig |-> SignalOf(r, m_has_sigusr1)])], 0)
         ELSE Exit([r EXCEPT !.msg = "traceback"], 1)]
    /\ UNCHANGED <<m_pid_file, m_has_sigusr1>>
    /\ UNCHANGED OutsideMain

\* main() without the test for a stale PID file
MainCheckAgainNoTest(p) ==
    LET r == m_procs[p] IN
    /\ r.pc = "check2"
    /\ m_procs' = [m_procs EXCEPT ![p] = [r EXCEPT !.pc = "fork"]]
    /\ UNCHANGED <<m_pid_file, m_has_sigusr1>>
    /\ UNCHANGED OutsideMain

\* lines 170-172: the second tools.check_pid(old_pid)
MainCheckAgain(p) ==
    LET r == m_procs[p] IN
    /\ r.pc = "check2"
    /\ m_procs' = [m_procs EXCEPT ![p] =
         IF ~CheckPid(r.old_pid) /\ (r.kill \/ r.quit)
         THEN Exit([r EXCEPT !.msg = "not_running"], 1)
         ELSE [r EXCEPT !.pc = "fork"]]
    /\ UNCHANGED <<m_pid_file, m_has_sigusr1>>
    /\ UNCHANGED OutsideMain

\* lines 176-179: with --fork the parent exits and the child goes on
MainFork(p) ==
    LET r == m_procs[p] IN
    /\ r.pc = "fork"
    /\ IF r.deamonize
       THEN \E child \in Pids :
              /\ m_procs[child].pc = "idle"
              /\ m_procs' = [m_procs EXCEPT
                               ![p] = Exit([r EXCEPT !.forked = TRUE], 0),
                               ![child] = [r EXCEPT !.pc = "write"]]
       ELSE m_procs' = [m_procs EXCEPT ![p] = [r EXCEPT !.pc = "write"]]
    /\ UNCHANGED <<m_pid_file, m_has_sigusr1>>
    /\ UNCHANGED OutsideMain

\* line 180: open(pid_file_path, 'w') creates or empties the file
MainOpenWrite(p) ==
    LET r == m_procs[p] IN
    /\ r.pc = "write"
    /\ m_pid_file' = -1
    /\ m_procs' = [m_procs EXCEPT ![p] = [r EXCEPT !.pc = "write2",
                                                   !.wrote = TRUE]]
    /\ UNCHANGED m_has_sigusr1
    /\ UNCHANGED OutsideMain

\* lines 181-186: write str(os.getpid()), close, run(config_module)
MainWriteRun(p) ==
    LET r == m_procs[p] IN
    /\ r.pc = "write2"
    /\ m_pid_file' = p
    /\ m_procs' = [m_procs EXCEPT ![p] = [r EXCEPT !.pc = "run",
                                                   !.ran = TRUE]]
    /\ UNCHANGED m_has_sigusr1
    /\ UNCHANGED OutsideMain

\* The bot runtime ends (signal, crash or quit); the PID file stays or is
\* removed by the runtime
MainDie(p) ==
    /\ m_procs[p].pc = "run"
    /\ m_procs' = [m_procs EXCEPT ![p].pc = "dead"]
    /\ \/ m_pid_file' = m_pid_file
       \/ m_pid_file = p /\ m_pid_file' = 0
    /\ UNCHANGED m_has_sigusr1
    /\ UNCHANGED OutsideMain

NextMain ==
    \E p \in Pids :
        \/ MainStart(p)
        \/ MainIsFile(p)
        \/ MainRead(p)
        \/ MainCheck(p)
        \/ MainSignal(p)
        \/ MainCheckAgain(p)
        \/ MainFork(p)
        \/ MainOpenWrite(p)
        \/ MainWriteRun(p)
        \/ MainDie(p)

InitMain ==
    /\ JobIdle
    /\ SchedInit
    /\ CallInit
    /\ DispIdle
    /\ CapInit
    /\ RejoinInit
    /\ MainInit
    /\ NamesInit
    /\ UnregInit
    /\ BlocksInit
    /\ SetupIdle
    /\ ConfigInit
    /\ CapLSIdle
    /\ RaceInit
    /\ JoinInit
    /\ TierInit
    /\ ModesInit
    /\ TrackIdle
    /\ ShutIdle
    /\ BootIdle
    /\ RegIdle

SpecMain == InitMain /\ [][NextMain]_vars

\* the processes that have passed the PID-file check, written the file and
\* entered run(), and are alive
Running == {p \in Pids : m_procs[p].pc = "run"}

\* C37: for one configuration name, at most one process is in the bot's
\* main loop at a time, also when two are launched at the same moment with
\* no PID file or a stale one.
C37_SingleInstance == Cardinality(Running) <= 1

\* C9: a process that found the PID file's recorded process alive and was
\* given neither --quit nor --kill has exited with status 1 after the
\* conflict message; it sent no signal, did not write the PID file, did not
\* fork and did not reach run().
C9_PidConflict ==
    \A p \in Pids :
        LET r == m_procs[p] IN
        (r.alive = "alive" /\ ~r.quit /\ ~r.kill) =>
            /\ r.pc = "exited"
            /\ r.status = 1
            /\ r.msg = "conflict"
            /\ r.sent = <<>>
            /\ ~r.wrote
            /\ ~r.forked
            /\ ~r.ran

\* a second process was refused while the first one runs the bot
C9_Witness ==
    \E p \in Pids, q \in Pids :
        /\ m_procs[q].pc = "run"
        /\ m_pid_file = q
        /\ m_procs[p].old_pid = q
        /\ m_procs[p].alive = "alive"
        /\ ~m_procs[p].quit /\ ~m_procs[p].kill
        /\ m_procs[p].status = 1

\* C10: a process given --kill or --quit that found the recorded process
\* alive never writes the PID file, forks or reaches run() and sends at most
\* one signal; when the recorded process is still there to be signalled it
\* exits 0 having sent exactly one signal to the recorded pid: SIGKILL for
\* --kill, and for --quit SIGUSR1 if the platform has it, else SIGTERM.
C10_SignalLive ==
    \A p \in Pids :
        LET r == m_procs[p] IN
        (r.alive = "alive" /\ (r.quit \/ r.kill)) =>
            /\ ~r.wrote /\ ~r.forked /\ ~r.ran
            /\ Len(r.sent) <= 1
            /\ (r.pc = "exited" /\ r.target_alive) =>
                  /\ r.status = 0
                  /\ r.sent = <<[pid |-> r.old_pid,
                                 sig |-> IF r.kill THEN "SIGKILL"
                                         ELSE IF m_has_sigusr1 THEN "SIGUSR1"
                                         ELSE "SIGTERM"]>>

\* --quit alone on a platform without SIGUSR1: SIGTERM went to the recorded pid
C10_Witness ==
    \E p \in Pids :
        LET r == m_procs[p] IN
        /\ ~m_has_sigusr1
        /\ r.quit /\ ~r.kill
        /\ r.alive = "alive"
        /\ r.pc = "exited"
        /\ r.status = 0
        /\ r.sent = <<[pid |-> r.old_pid, sig |-> "SIGTERM"]>>

\* C11: a process given --quit or --kill that found no PID file, or found
\* the recorded process not alive, sends no signal, never writes the PID
\* file, forks or reaches run(), and exits with status 1 after the "not
\* running" message.
C11_NotRunning ==
    \A p \in Pids :
        LET r == m_procs[p] IN
        ((r.quit \/ r.kill) /\ (r.file = "absent" \/ r.alive = "dead")) =>
            /\ r.sent = <<>>
            /\ ~r.wrote /\ ~r.forked /\ ~r.ran
            /\ r.pc \in {"check2", "exited"}
            /\ r.pc = "exited" => (r.status = 1 /\ r.msg = "not_running")

\* --kill against a PID file left behind by a bot that has ended
C11_Witness ==
    \E p \in Pids :
        LET r == m_procs[p] IN
        /\ r.kill
        /\ r.alive = "dead"
        /\ m_pid_file = r.old_pid
        /\ m_procs[r.old_pid].pc = "dead"
        /\ r.pc = "exited"
        /\ r.status = 1
        /\ r.msg = "not_running"

(***************************************************************************)
(* coretasks.handle_names: privileges from a 353 (NAMES) reply             *)
(***************************************************************************)

\* Largest number of names in one 353 reply
MaxNames == 3

\* sopel.module privilege bits
VOICE == 1
HALFOP == 2
OP == 4
ADMIN == 8
OWNER == 16

PrefixChars == {"+", "%", "@", "&", "~"}

\* 'x in name' for a character x
Contains(name, ch) == \E i \in 1..Len(name) : name[i] = ch

\* handle_names with only the first character of the name looked at
NamePrivFirstOnly(name) ==
    IF name = <<>> THEN 0
    ELSE (IF name[1] = "+" THEN VOICE ELSE 0)
         + (IF name[1] = "%" THEN HALFOP ELSE 0)
         + (IF name[1] = "@" THEN OP ELSE 0)
         + (IF name[1] = "&" THEN ADMIN ELSE 0)
         + (IF name[1] = "~" THEN OWNER ELSE 0)

\* lines 115-125: priv = priv | value for every prefix found in the name;
\* the bits are distinct, so the union is the sum
NamePriv(name) ==
    (IF Contains(name, "+") THEN VOICE ELSE 0)
    + (IF Contains(name, "%") THEN HALFOP ELSE 0)
    + (IF Contains(name, "@") THEN OP ELSE 0)
    + (IF Contains(name, "&") THEN ADMIN ELSE 0)
    + (IF Contains(name, "~") THEN OWNER ELSE 0)

RECURSIVE LStrip(_)
\* name.lstrip('+%@&~')
LStrip(name) ==
    IF name # <<>> /\ name[1] \in PrefixChars
    THEN LStrip(Tail(name))
    ELSE name

\* the case folding of Nick keys
FoldChar(ch) ==
    CASE ch = "A" -> "a"
      [] ch = "B" -> "b"
      [] ch = "C" -> "c"
      [] OTHER -> ch

\* Nick(name): the key under which the privilege map finds the nick
NickKey(name) == [i \in 1..Len(name) |-> FoldChar(name[i])]

RECURSIVE Split(_, _)
\* re.split(' ', text): cur is the name read so far
Split(text, cur) ==
    IF text = <<>> THEN <<cur>>
    ELSE IF text[1] = " "
         THEN <<cur>> \o Split(Tail(text), <<>>)
         ELSE Split(Tail(text), Append(cur, text[1]))

RECURSIVE JoinNames(_)
\* the names of a reply, separated by single spaces
JoinNames(names) ==
    IF names = <<>> THEN <<>>
    ELSE IF Len(names) = 1 THEN names[1]
    ELSE names[1] \o <<" ">> \o JoinNames(Tail(names))

\* position of the first '#' of a word, 0 if it has none
HashAt(word) ==
    IF Contains(word, "#")
    THEN CHOOSE i \in 1..Len(word) :
            word[i] = "#" /\ \A j \in 1..(i - 1) : word[j] # "#"
    ELSE 0

\* re.search('(#\S*)', bot.raw): from the first '#' of the line to the end
\* of its word; <<>> when the line has no '#'
ChannelOf(raw) ==
    IF \E w \in 1..Len(raw) : Contains(raw[w], "#")
    THEN LET w == CHOOSE v \in 1..Len(raw) :
                     /\ Contains(raw[v], "#")
                     /\ \A u \in 1..(v - 1) : ~Contains(raw[u], "#")
         IN SubSeq(raw[w], HashAt(raw[w]), Len(raw[w]))
    ELSE <<>>

RECURSIVE SetNames(_, _)
\* lines 113-128: the loop over the names, in order
SetNames(privs, names) ==
    IF names = <<>> THEN privs
    ELSE SetNames([privs EXCEPT ![NickKey(LStrip(names[1]))] =
                                   NamePriv(names[1])],
                  Tail(names))

\* The names a server lists: a nick with its privilege prefixes, or the
\* empty name that a trailing space leaves behind
NameTokens ==
    {<<"@", "a">>, <<"@", "+", "a">>, <<"+", "b">>, <<"c">>, <<"%", "C">>,
     <<>>}

\* the name lists of a reply: every nick at most once
NameLists ==
    {ns \in UNION {[1..n -> NameTokens] : n \in 1..MaxNames} :
        \A i, j \in 1..Len(ns) :
            (i < j /\ ns[i] # <<>>) =>
                NickKey(LStrip(ns[i])) # NickKey(LStrip(ns[j]))}

\* A 353 reply arrives: ":server 353 me = #chan :names"
NamesReceive ==
    /\ n_pc = "idle"
    /\ \E chan \in PrivChans, ns \in NameLists :
         n_reply' = [raw |-> <<<<"m", "e">>, <<"=">>, chan>> \o ns,
                     text |-> JoinNames(ns)]
    /\ n_pc' = "recv"
    /\ UNCHANGED <<n_privileges, n_tracked, n_before>>
    /\ UNCHANGED OutsideNames

\* handle_names(bot, trigger)
HandleNames ==
    /\ n_pc = "recv"
    /\ LET names == Split(n_reply.text, <<>>)
           channel == ChannelOf(n_reply.raw)
       IN IF channel = <<>>
          THEN UNCHANGED <<n_privileges, n_tracked>>
          ELSE /\ n_tracked' = n_tracked \cup {channel}
               /\ n_privileges' =
                    [n_privileges EXCEPT
                       ![channel] = SetNames(n_privileges[channel], names)]
    /\ n_before' = n_privileges
    /\ n_pc' = "done"
    /\ UNCHANGED n_reply
    /\ UNCHANGED OutsideNames

\* The dispatcher goes on to the next line
NamesNextLine ==
    /\ n_pc = "done"
    /\ n_pc' = "idle"
    /\ n_reply' = NoReply
    /\ n_before' = [c \in PrivChans |-> [k \in PrivKeys |-> -1]]
    /\ UNCHANGED <<n_privileges, n_tracked>>
    /\ UNCHANGED OutsideNames

NextNames ==
    \/ NamesReceive
    \/ HandleNames
    \/ NamesNextLine

InitNames ==
    /\ JobIdle
    /\ SchedInit
    /\ CallInit
    /\ DispIdle
    /\ CapInit
    /\ RejoinInit
    /\ MainIdle
    /\ NamesInit
    /\ UnregInit
    /\ BlocksInit
    /\ SetupIdle
    /\ ConfigInit
    /\ CapLSIdle
    /\ RaceInit
    /\ JoinInit
    /\ TierInit
    /\ ModesInit
    /\ TrackIdle
    /\ ShutIdle
    /\ BootIdle
    /\ RegIdle

SpecNames == InitNames /\ [][NextNames]_vars

\* the number of leading characters of a listed name that are prefixes
LeadLen(name) ==
    IF \A i \in 1..Len(name) : name[i] \in PrefixChars
    THEN Len(name)
    ELSE (CHOOSE i \in 1..Len(name) :
            /\ name[i] \notin PrefixChars
            /\ \A j \in 1..(i - 1) : name[j] \in PrefixChars) - 1

\* the bit a prefix character stands for
PrefixBit(ch) ==
    CASE ch = "+" -> VOICE
      [] ch = "%" -> HALFOP
      [] ch = "@" -> OP
      [] ch = "&" -> ADMIN
      [] ch = "~" -> OWNER

RECURSIVE SumBits(_)
SumBits(chars) ==
    IF chars = {} THEN 0
    ELSE LET ch == CHOOSE x \in chars : TRUE
         IN PrefixBit(ch) + SumBits(chars \ {ch})

\* the union of the bits of the leading prefix characters of a listed name
LeadingBits(name) == SumBits({name[i] : i \in 1..LeadLen(name)})

\* the listed name without its leading prefix characters
BareName(name) == SubSeq(name, LeadLen(name) + 1, Len(name))

\* C13: after a 353 reply for channel C has been handled, C is a key of the
\* privilege map and the entry of each listed name, keyed by the name
\* without its prefixes, is exactly the union of the bits of its leading
\* prefix characters, whatever the entry was before.
C13_NamesPrivileges ==
    n_pc = "done" =>
        LET chan == n_reply.raw[3]
            names == SubSeq(n_reply.raw, 4, Len(n_reply.raw))
        IN /\ chan \in n_tracked
           /\ \A i \in 1..Len(names) :
                 n_privileges[chan][NickKey(BareName(names[i]))]
                     = LeadingBits(names[i])

\* '@a +b c' for #x: Op for a (who had Op and Voice before), Voice for b,
\* nothing for c
C13_Witness ==
    /\ n_pc = "done"
    /\ n_reply.raw[3] = <<"#", "x">>
    /\ n_reply.text = <<"@", "a", " ", "+", "b", " ", "c">>
    /\ n_before[<<"#", "x">>][<<"a">>] = OP + VOICE
    /\ n_privileges[<<"#", "x">>][<<"a">>] = OP
    /\ n_privileges[<<"#", "x">>][<<"b">>] = VOICE
    /\ n_privileges[<<"#", "x">>][<<"c">>] = 0

(***************************************************************************)
(* Failing handlers: call() under dispatch() and _call() under the         *)
(* scheduler                                                               *)
(***************************************************************************)

\* The dispatching thread works on lines whose handlers may raise
FailDispatcher ==
    \/ ReceiveFailing
    \/ Dispatch
    \/ NextLine

\* The dispatching thread and the scheduler share no variable, so one of
\* them is followed at a time: the dispatcher while the scheduler has not
\* started, the scheduler between two lines
NextFail ==
    \/ SchedInit /\ FailDispatcher
    \/ d_pc = "idle" /\ NextSched

InitFail ==
    /\ JobIdle
    /\ SchedInit
    /\ CallInit
    /\ DispIdle
    /\ CapInit
    /\ RejoinInit
    /\ MainIdle
    /\ NamesInit
    /\ UnregInit
    /\ BlocksInit
    /\ SetupIdle
    /\ ConfigInit
    /\ CapLSIdle
    /\ RaceInit
    /\ JoinInit
    /\ TierInit
    /\ ModesInit
    /\ TrackIdle
    /\ ShutIdle
    /\ BootIdle
    /\ RegIdle

SpecFail == InitFail /\ [][NextFail]_vars

\* C14: (a) after dispatch() of a line some of whose handlers raise, every
\* matching handler of the line's event has still been started, the raised
\* exceptions were reported through self.error and none left dispatch();
\* (b) when the handler of a job raises, the worker goes on with the round:
\* job.next() is called and the job is put back (unless clear_jobs emptied
\* the queue meanwhile), and the worker is back at the head of its loop.
C14_FailuresContained ==
    /\ d_pc = "done" =>
          /\ ~d_raised
          /\ \A f \in Range(Candidates(d_line.text)) :
                d_line.event = HEvent(f) => f \in Range(d_started)
          /\ d_errors = {f \in Range(Candidates(d_line.text)) :
                            d_line.event = HEvent(f) /\ f \in d_fail}
    /\ s_fail =>
          \/ s_cur # 0 /\ s_wpc \in {"next", "put"}
          \/ /\ s_cur = 0
             /\ s_wpc \in {"lock", "peek", "sleep", "get"}
             /\ s_nexted
             /\ s_last \in s_jobs \/ s_cleared

\* the first matching handler raised on the dispatching thread and the
\* handler after it was started all the same
C14_Witness ==
    /\ d_pc = "done"
    /\ d_line.text = "hi"
    /\ d_line.event = "PRIVMSG"
    /\ d_fail = {"track"}
    /\ d_errors = {"track"}
    /\ d_started = <<"track", "echo">>

\* the handler of the only job raised and the job is back in the queue
C14_WitnessJob ==
    /\ s_fail
    /\ s_cur = 0
    /\ s_nexted
    /\ s_last \in s_jobs

(***************************************************************************)
(* Sopel.register, Sopel.unregister and Sopel.bind_commands                *)
(***************************************************************************)

\* The modules: the callables among the variables of each
UModules == {{"cmd", "tick"}, {"twice"}, {"core"}}

\* func.priority
UPriority(f) ==
    CASE f = "twice" -> "low"
      [] f = "core" -> "high"
      [] OTHER -> "medium"

\* the patterns of func.rule and func.commands in the order they are bound;
\* "twice" lists the same command two times
URules(f) ==
    CASE f = "cmd" -> <<"p">>
      [] f = "core" -> <<"p">>
      [] f = "twice" -> <<"q", "q">>
      [] OTHER -> <<>>

\* hasattr(func, 'interval')
UHasInterval(f) == f = "tick"

RECURSIVE RemoveFirst(_, _)
\* list.remove(x): the first occurrence goes
RemoveFirst(q, x) ==
    IF q = <<>> THEN <<>>
    ELSE IF Head(q) = x THEN Tail(q)
    ELSE <<Head(q)>> \o RemoveFirst(Tail(q), x)

\* remove_func(func, commands) for one handler list
RemoveFunc(q, f) == IF f \in Range(q) THEN RemoveFirst(q, f) ELSE q

RECURSIVE RemoveAll(_, _)
\* the handler lists after remove_func for each callable of fs
RemoveAll(cmds, fs) ==
    IF fs = {} THEN cmds
    ELSE LET f == CHOOSE x \in fs : TRUE
         IN RemoveAll([t \in UTiers |->
                          [re \in UPatterns |-> RemoveFunc(cmds[t][re], f)]],
                      fs \ {f})

\* how often pattern re is among the rules of f
Times_(q, re) == Cardinality({i \in 1..Len(q) : q[i] = re})

RECURSIVE BindAll(_, _)
\* bind(self, func.priority, regexp, func) for every callable and rule:
\* setdefault(regexp, []).append(func)
BindAll(cmds, fs) ==
    IF fs = {} THEN cmds
    ELSE LET f == CHOOSE x \in fs : TRUE
             bound == [cmds EXCEPT ![UPriority(f)] =
                         [re \in UPatterns |->
                            cmds[UPriority(f)][re]
                              \o [i \in 1..Times_(URules(f), re) |-> f]]]
         IN BindAll(bound, fs \ {f})

\* register(variables)
Register ==
    /\ \E variables \in UModules :
        /\ u_callables' = u_callables \cup variables
        /\ u_gone' = u_gone \ variables
    /\ u_invoked' = {}
    /\ u_by' = "none"
    /\ UNCHANGED <<u_commands, u_jobs>>
    /\ UNCHANGED OutsideUnreg

\* bind_commands(): the table is rebuilt from self.callables, the job queue
\* is cleared and a job is added for every interval
BindCommands ==
    /\ u_commands' =
         BindAll([t \in UTiers |-> [re \in UPatterns |-> <<>>]], u_callables)
    /\ u_jobs' = {f \in u_callables : UHasInterval(f)}
    /\ u_invoked' = {}
    /\ u_by' = "none"
    /\ UNCHANGED <<u_callables, u_gone>>
    /\ UNCHANGED OutsideUnreg

\* unregister(variables): the registered callables among the variables
\* leave self.callables and the handler lists; the scheduler is not touched
Unregister ==
    /\ \E variables \in UModules :
        /\ u_callables' = u_callables \ variables
        /\ u_commands' = RemoveAll(u_commands, variables \cap u_callables)
        /\ u_gone' = u_gone \cup variables
    /\ u_invoked' = {}
    /\ u_by' = "none"
    /\ UNCHANGED u_jobs
    /\ UNCHANGED OutsideUnreg

\* dispatch() of a line whose text matches one pattern: every callable of
\* its handler lists is invoked
UDispatch ==
    /\ \E text \in UPatterns :
         u_invoked' = UNION {Range(u_commands[t][text]) : t \in UTiers}
    /\ u_by' = "dispatch"
    /\ UNCHANGED <<u_callables, u_commands, u_jobs, u_gone>>
    /\ UNCHANGED OutsideUnreg

\* _do_next_job: the scheduler takes a job out of the queue, calls its
\* callable and puts the job back
UJobRun ==
    /\ \E f \in u_jobs : u_invoked' = {f}
    /\ u_by' = "scheduler"
    /\ UNCHANGED <<u_callables, u_commands, u_jobs, u_gone>>
    /\ UNCHANGED OutsideUnreg

NextUnreg ==
    \/ Register
    \/ BindCommands
    \/ Unregister
    \/ UDispatch
    \/ UJobRun

InitUnreg ==
    /\ JobIdle
    /\ SchedInit
    /\ CallInit
    /\ DispIdle
    /\ CapInit
    /\ RejoinInit
    /\ MainIdle
    /\ NamesInit
    /\ UnregInit
    /\ BlocksInit
    /\ SetupIdle
    /\ ConfigInit
    /\ CapLSIdle
    /\ RaceInit
    /\ JoinInit
    /\ TierInit
    /\ ModesInit
    /\ TrackIdle
    /\ ShutIdle
    /\ BootIdle
    /\ RegIdle

SpecUnreg == InitUnreg /\ [][NextUnreg]_vars

\* C15: a callable that unregister() has removed (and that has not been
\* registered again) is not invoked, neither by dispatch of a line nor by
\* the job scheduler.
C15_UnregisteredNotInvoked == u_invoked \cap u_gone = {}

\* C15, dispatch part for callables bound once per pattern: no list of the
\* table holds an unregistered callable unless it is listed twice there
C15_TableClean ==
    \A t \in UTiers, re \in UPatterns, f \in u_gone :
        f \in Range(u_commands[t][re]) => Times_(URules(f), re) > 1

(***************************************************************************)
(* coretasks.blocks: live block-list editing                               *)
(***************************************************************************)

\* the longest block list the model builds
MaxBlocks == 2

\* trigger.group().split() of the lines that reach the handler
BlockKinds == {"nick", "hostmask", "other"}

BlockTexts ==
    {<<".blocks">>}
    \cup {<<".blocks", "list", k>> : k \in BlockKinds}
    \cup {<<".blocks", sub, k, v>> :
            sub \in {"add", "del"}, k \in BlockKinds, v \in BlockValues}

\* text[3].lower()
MaskLower(v) == IF v = "B" THEN "b" ELSE v

\* s.admin = s.admin or s.owner
OriginAdmin(admin, owner) == admin \/ owner

\* the guard of the handler, without the test of trigger.admin
BlocksAdmittedAll(admin, owner) == TRUE

\* if not trigger.admin: return
BlocksAdmitted(admin, owner) == OriginAdmin(admin, owner)

\* Nick(v) in nicks: Nick compares case-insensitively
NickIn(v, nicks) == \E i \in 1..Len(nicks) : MaskLower(nicks[i]) = MaskLower(v)

\* nicks.remove(Nick(v)): the first equal element goes
RECURSIVE RemoveNick(_, _)
RemoveNick(nicks, v) ==
    IF nicks = <<>> THEN <<>>
    ELSE IF MaskLower(Head(nicks)) = MaskLower(v) THEN Tail(nicks)
    ELSE <<Head(nicks)>> \o RemoveNick(Tail(nicks), v)

\* masks.remove(mask)
RECURSIVE RemoveMask(_, _)
RemoveMask(masks, v) ==
    IF masks = <<>> THEN <<>>
    ELSE IF Head(masks) = v THEN Tail(masks)
    ELSE <<Head(masks)>> \o RemoveMask(Tail(masks), v)

\* bot.say of each element of a list
SayEach(list) == [i \in 1..Len(list) |-> <<"say", list[i]>>]

\* bot.reply(STRINGS[key] % arg)
ReplyOf(key, arg) == <<"reply", key, arg>>

\* bot.config.save(): the whole parser is written
SaveEvent == <<"save">>

\* the effect of one call of the handler on (nicks, masks, file, events)
BlocksEffect(text, nicks, masks, file) ==
    LET same(ev) == [nicks |-> nicks, masks |-> masks, file |-> file,
                     events |-> ev]
    IN
    CASE Len(text) = 3 /\ text[2] = "list" ->
            IF text[3] = "hostmask"
            THEN IF Len(masks) > 0
                 THEN same(SayEach(masks))
                 ELSE same(<<ReplyOf("nonelisted", "hostmasks")>>)
            ELSE IF text[3] = "nick"
            THEN IF Len(nicks) > 0
                 THEN same(SayEach(nicks))
                 ELSE same(<<ReplyOf("nonelisted", "nicks")>>)
            ELSE same(<<ReplyOf("invalid_display", "")>>)
      [] Len(text) = 4 /\ text[2] = "add" ->
            IF text[3] = "nick"
            THEN LET n == Append(nicks, text[4])
                 IN [nicks |-> n, masks |-> masks,
                     file |-> [nicks |-> n, masks |-> masks],
                     events |-> <<SaveEvent, ReplyOf("success_add", text[4])>>]
            ELSE IF text[3] = "hostmask"
            THEN [nicks |-> nicks, masks |-> Append(masks, MaskLower(text[4])),
                  file |-> file,
                  events |-> <<ReplyOf("success_add", text[4])>>]
            ELSE same(<<ReplyOf("invalid", "adding")>>)
      [] Len(text) = 4 /\ text[2] = "del" ->
            IF text[3] = "nick"
            THEN IF ~NickIn(text[4], nicks)
                 THEN same(<<ReplyOf("no_nick", text[4])>>)
                 ELSE LET n == RemoveNick(nicks, text[4])
                      IN [nicks |-> n, masks |-> masks,
                          file |-> [nicks |-> n, masks |-> masks],
                          events |->
                            <<SaveEvent, ReplyOf("success_del", text[4])>>]
            ELSE IF text[3] = "hostmask"
            THEN IF \A i \in 1..Len(masks) : masks[i] # MaskLower(text[4])
                 THEN same(<<ReplyOf("no_host", text[4])>>)
                 ELSE LET m == RemoveMask(masks, MaskLower(text[4]))
                      IN [nicks |-> nicks, masks |-> m,
                          file |-> [nicks |-> nicks, masks |-> m],
                          events |->
                            <<SaveEvent, ReplyOf("success_del", text[4])>>]
            ELSE same(<<ReplyOf("invalid", "deleting")>>)
      [] OTHER -> same(<<ReplyOf("huh", "")>>)

\* one .blocks line from an origin that is or is not admin, is or is not
\* the owner
Blocks ==
    \E admin \in BOOLEAN, owner \in BOOLEAN, text \in BlockTexts :
        LET out == IF BlocksAdmitted(admin, owner)
                   THEN BlocksEffect(text, b_nicks, b_masks, b_file)
                   ELSE [nicks |-> b_nicks, masks |-> b_masks,
                         file |-> b_file, events |-> <<>>]
        IN
        /\ Len(out.nicks) <= MaxBlocks
        /\ Len(out.masks) <= MaxBlocks
        /\ b_cmd' = [admin |-> admin, owner |-> owner, text |-> text]
        /\ b_pre' = [nicks |-> b_nicks, masks |-> b_masks, file |-> b_file]
        /\ b_nicks' = out.nicks
        /\ b_masks' = out.masks
        /\ b_file' = out.file
        /\ b_events' = out.events
        /\ UNCHANGED OutsideBlocks

NextBlocks == Blocks

InitBlocks ==
    /\ JobIdle
    /\ SchedInit
    /\ CallInit
    /\ DispIdle
    /\ CapInit
    /\ RejoinInit
    /\ MainIdle
    /\ NamesInit
    /\ UnregInit
    /\ BlocksInit
    /\ SetupIdle
    /\ ConfigInit
    /\ CapLSIdle
    /\ RaceInit
    /\ JoinInit
    /\ TierInit
    /\ ModesInit
    /\ TrackIdle
    /\ ShutIdle
    /\ BootIdle
    /\ RegIdle

SpecBlocks == InitBlocks /\ [][NextBlocks]_vars

\* the last command was `.blocks add <kind> <v>` from an admin or owner
AdminAdd(kind) ==
    /\ OriginAdmin(b_cmd.admin, b_cmd.owner)
    /\ Len(b_cmd.text) = 4
    /\ b_cmd.text[2] = "add"
    /\ b_cmd.text[3] = kind

\* C16: after an admin's `.blocks add nick <v>` or `.blocks add hostmask
\* <v>` the value is appended to the corresponding block list, and the
\* configuration is saved - the file holds the new lists - before the
\* success reply is sent.
C16_AddPersisted ==
    /\ AdminAdd("nick") =>
        /\ b_nicks = Append(b_pre.nicks, b_cmd.text[4])
        /\ b_file = [nicks |-> b_nicks, masks |-> b_masks]
        /\ b_events = <<SaveEvent, ReplyOf("success_add", b_cmd.text[4])>>
    /\ AdminAdd("hostmask") =>
        /\ b_masks = Append(b_pre.masks, MaskLower(b_cmd.text[4]))
        /\ b_file = [nicks |-> b_nicks, masks |-> b_masks]
        /\ b_events = <<SaveEvent, ReplyOf("success_add", b_cmd.text[4])>>

\* C17: a .blocks command, whatever its subcommand, from an origin that is
\* neither admin nor owner leaves nick_blocks, host_blocks and the saved
\* configuration as they were and produces no reply.
C17_AdminOnly ==
    (b_cmd # NoCmd /\ ~b_cmd.admin /\ ~b_cmd.owner) =>
        /\ b_nicks = b_pre.nicks
        /\ b_masks = b_pre.masks
        /\ b_file = b_pre.file
        /\ b_events = <<>>

\* a non-admin tried to delete a nick that is blocked, with a hostmask
\* block still unsaved
C17_Witness ==
    /\ ~b_cmd.admin /\ ~b_cmd.owner
    /\ b_cmd.text = <<".blocks", "del", "nick", "a">>
    /\ NickIn("a", b_nicks)
    /\ b_file.masks # b_masks
    /\ b_events = <<>>

\* the handler answered an admin's `.blocks del <kind> <v>` with success_del
AdminDeleted(kind) ==
    /\ OriginAdmin(b_cmd.admin, b_cmd.owner)
    /\ Len(b_cmd.text) = 4
    /\ b_cmd.text[2] = "del"
    /\ b_cmd.text[3] = kind
    /\ b_events = <<SaveEvent, ReplyOf("success_del", b_cmd.text[4])>>

\* C38: after a successful `.blocks del nick X` or `.blocks del hostmask X`
\* by an admin no entry equal to X remains in the corresponding list,
\* whatever adds and dels came before, X added more than once included.
C38_DeleteRemoves ==
    /\ AdminDeleted("nick") => ~NickIn(b_cmd.text[4], b_nicks)
    /\ AdminDeleted("hostmask") =>
        \A i \in 1..Len(b_masks) : b_masks[i] # MaskLower(b_cmd.text[4])

(***************************************************************************)
(* Sopel.setup and Config.enumerate_modules                                *)
(***************************************************************************)

\* the number of core.extra directories
MaxExtraDirs == 1

\* the names enable and exclude can list
ListedNames == {"coretasks", "m"}

ExtraLocation(i) ==
    CASE i = 1 -> "extra1"
      [] i = 2 -> "extra2"
      [] OTHER -> "extra3"

\* fn.endswith('.py') and not fn.startswith('_')
IsModuleFile(n) == n # "_m"

\* modules[fn[:-3]] = os.path.join(dir, fn) for every module file of dir
AddDir(modules, files, location) ==
    [n \in ModNames |->
        IF n \in files /\ IsModuleFile(n) THEN location ELSE modules[n]]

RECURSIVE AddExtra(_, _, _)
AddExtra(modules, dirs, i) ==
    IF i > Len(dirs) THEN modules
    ELSE AddExtra(AddDir(modules, dirs[i], ExtraLocation(i)), dirs, i + 1)

\* the whitelist, if present
Whitelisted(modules, enable) ==
    IF enable = {} THEN modules
    ELSE [n \in ModNames |-> IF n \in enable THEN modules[n] ELSE "none"]

\* the blacklist
Blacklisted(modules, exclude) ==
    [n \in ModNames |-> IF n \in exclude THEN "none" ELSE modules[n]]

\* Config.enumerate_modules()
EnumerateModules ==
    LET found == AddExtra(AddDir(AddDir(NoModules, e_regular, "regular"),
                                 e_home, "home"), e_extra, 1)
    IN Blacklisted(Whitelisted(found, e_enable), e_exclude)

\* setup() without the forced entry
ForcedNot(filenames) == filenames

\* filenames['coretasks'] = os.path.join(this_dir, 'coretasks.py')
Forced(filenames) == [filenames EXCEPT !["coretasks"] = "internal"]

\* the directories and the two lists setup() can find
SetupInit ==
    /\ e_regular \in SUBSET ModNames
    /\ e_home \in SUBSET ModNames
    /\ e_extra \in UNION {[1..k -> SUBSET ModNames] : k \in 0..MaxExtraDirs}
    /\ e_enable \in SUBSET ListedNames
    /\ e_exclude \in SUBSET ListedNames
    /\ e_filenames = NoModules
    /\ e_loaded = NoModules
    /\ e_pc = "start"

\* filenames = self.config.enumerate_modules()
SetupEnumerate ==
    /\ e_pc = "start"
    /\ e_filenames' = EnumerateModules
    /\ e_pc' = "enumerated"
    /\ UNCHANGED <<e_regular, e_home, e_extra, e_enable, e_exclude, e_loaded>>
    /\ UNCHANGED OutsideSetup

\* the forced entry of the core task module
SetupForce ==
    /\ e_pc = "enumerated"
    /\ e_filenames' = Forced(e_filenames)
    /\ e_pc' = "forced"
    /\ UNCHANGED <<e_regular, e_home, e_extra, e_enable, e_exclude, e_loaded>>
    /\ UNCHANGED OutsideSetup

\* for name, filename in filenames.iteritems(): imp.load_source(name,
\* filename)
SetupLoad ==
    /\ e_pc = "forced"
    /\ e_loaded' = e_filenames
    /\ e_pc' = "loaded"
    /\ UNCHANGED <<e_regular, e_home, e_extra, e_enable, e_exclude,
                   e_filenames>>
    /\ UNCHANGED OutsideSetup

NextSetup ==
    \/ SetupEnumerate
    \/ SetupForce
    \/ SetupLoad

InitSetup ==
    /\ JobIdle
    /\ SchedInit
    /\ CallInit
    /\ DispIdle
    /\ CapInit
    /\ RejoinInit
    /\ MainIdle
    /\ NamesInit
    /\ UnregInit
    /\ BlocksInit
    /\ SetupInit
    /\ ConfigInit
    /\ CapLSIdle
    /\ RaceInit
    /\ JoinInit
    /\ TierInit
    /\ ModesInit
    /\ TrackIdle
    /\ ShutIdle
    /\ BootIdle
    /\ RegIdle

SpecSetup == InitSetup /\ [][NextSetup]_vars

\* C18: whatever the directories hold and whatever enable and exclude
\* list, setup() loads the module name coretasks, and loads it from the
\* fixed internal file: a user file of that name is never the one selected,
\* and neither a whitelist without it nor a blacklist with it removes it.
C18_CoretasksForced ==
    /\ e_pc \in {"forced", "loaded"} => e_filenames["coretasks"] = "internal"
    /\ e_pc = "loaded" => e_loaded["coretasks"] = "internal"

\* user files named coretasks in the home and an extra directory, a
\* whitelist without coretasks and a blacklist naming it
C18_Witness ==
    /\ e_pc = "loaded"
    /\ "coretasks" \in e_home
    /\ Len(e_extra) > 0 /\ "coretasks" \in e_extra[1]
    /\ e_enable = {"m"}
    /\ e_exclude = {"coretasks"}
    /\ e_loaded["coretasks"] = "internal"
    /\ e_loaded["m"] # "none"

(***************************************************************************)
(* Config.add_section                                                      *)
(***************************************************************************)

\* bool(value) of what add_section can return
Truthy(ret) == ret = "True"

\* the name RawConfigParser.add_section refuses with ValueError
IsDefaultName(name) == name = "DEFAULT"

\* return self.parser.add_section(name); except DuplicateSectionError:
\* return False.  RawConfigParser.add_section has no return statement.
AddSectionReturn(name) ==
    CASE IsDefaultName(name) -> "ValueError"
      [] name \in c_sections -> "False"
      [] OTHER -> "None"

AddSection ==
    \E name \in SecNames :
        /\ c_op' = [op |-> "add_section", name |-> name,
                    ret |-> AddSectionReturn(name),
                    existed |-> name \in c_sections]
        /\ c_before' = [sections |-> c_sections, keys |-> c_keys]
        /\ c_sections' = IF IsDefaultName(name) THEN c_sections
                         ELSE c_sections \cup {name}
        /\ c_keys' = c_keys
        /\ UNCHANGED OutsideConfig

\* ConfigSection.__setattr__: self._parent.parser.set(self._name, name,
\* value) on a section that exists
SetOption ==
    \E name \in c_sections, key \in OptKeys :
        /\ c_op' = [op |-> "set", name |-> name, ret |-> "None",
                    existed |-> TRUE]
        /\ c_before' = [sections |-> c_sections, keys |-> c_keys]
        /\ c_keys' = [c_keys EXCEPT ![name] = @ \cup {key}]
        /\ c_sections' = c_sections
        /\ UNCHANGED OutsideConfig

NextConfig ==
    \/ AddSection
    \/ SetOption

InitConfig ==
    /\ JobIdle
    /\ SchedInit
    /\ CallInit
    /\ DispIdle
    /\ CapInit
    /\ RejoinInit
    /\ MainIdle
    /\ NamesInit
    /\ UnregInit
    /\ BlocksInit
    /\ SetupIdle
    /\ ConfigInit
    /\ CapLSIdle
    /\ RaceInit
    /\ JoinInit
    /\ TierInit
    /\ ModesInit
    /\ TrackIdle
    /\ ShutIdle
    /\ BootIdle
    /\ RegIdle

SpecConfig == InitConfig /\ [][NextConfig]_vars

\* C19: add_section(name) returns a true value when the section did not
\* exist and a false one when it did, and a call for a section that exists
\* changes neither the set of sections nor the keys of any section.
C19_AddSection ==
    c_op.op = "add_section" =>
        /\ ~c_op.existed => Truthy(c_op.ret)
        /\ c_op.existed =>
            /\ ~Truthy(c_op.ret)
            /\ c_sections = c_before.sections
            /\ c_keys = c_before.keys

\* C19, the half the code keeps: a repeated add_section changes nothing
\* and answers False
C19_Idempotent ==
    (c_op.op = "add_section" /\ c_op.existed) =>
        /\ c_op.ret = "False"
        /\ c_sections = c_before.sections
        /\ c_keys = c_before.keys

(***************************************************************************)
(* coretasks.recieve_cap_ls_reply                                          *)
(***************************************************************************)

\* what the server can list in its CAP LS reply
ServerCaps == Caps \cup {"multi-prefix"}

\* the lists the server sends: without and with the capabilities modules
\* ask for
ServerLists == {{"multi-prefix"}, {"sasl"}, {"sasl", "multi-prefix"},
                ServerCaps}

\* the entry coretasks stores: ['', 'coretasks', None]
CoreEntry == <<"", "coretasks", "None">>

\* the keys of _cap_reqs when the loop starts
LSKeys == {c \in Caps : k_cap_reqs[c] # <<>>} \cup {"multi-prefix"}

\* the value stored under multi-prefix is the flat list of coretasks; under
\* every other key it is the list of tuples cap_req built
IsFlat(cap) == cap = "multi-prefix"

\* the orders in which iteritems() can yield the keys
LSOrders(keys) ==
    {o \in [1..Cardinality(keys) -> keys] :
        \A i, j \in 1..Cardinality(keys) : i # j => o[i] # o[j]}

\* req[0] != '=': req[0] is the prefix for the flat list, and a tuple,
\* which equals no string, for a cap_req list
FirstIsNotRequire(cap) == IF IsFlat(cap) THEN CoreEntry[1] # "=" ELSE TRUE

\* ('CAP', 'REQ', req[0] + cap)
ReqLine(prefix, cap) == <<"CAP", "REQ", prefix, cap>>

\* one pass of the loop body: the line written, the callback invoked,
\* nothing, or the TypeError of req[0] + cap when req[0] is a tuple
LSBody(cap, server) ==
    IF FirstIsNotRequire(cap) \/ cap \in server
    THEN IF IsFlat(cap) THEN ReqLine(CoreEntry[1], cap) ELSE <<"TypeError">>
    ELSE IF CoreEntry[3] # "None" THEN <<"callback", CoreEntry[2], cap>>
    ELSE <<>>

\* the loop over an order of the keys, from position i
RECURSIVE LSLoop(_, _, _, _, _)
LSLoop(order, i, server, sent, failed) ==
    IF i > Len(order)
    THEN [sent |-> sent, failed |-> failed, raised |-> FALSE]
    ELSE LET out == LSBody(order[i], server)
         IN IF out = <<"TypeError">>
            THEN [sent |-> sent, failed |-> failed, raised |-> TRUE]
            ELSE IF out = <<>>
            THEN LSLoop(order, i + 1, server, sent, failed)
            ELSE IF out[1] = "callback"
            THEN LSLoop(order, i + 1, server, sent,
                        failed \cup {<<out[2], out[3]>>})
            ELSE LSLoop(order, i + 1, server, Append(sent, out), failed)

\* the end of LS processing
LSLastEnd(sasl) == <<"CAP", "END">>

LSLast(sasl) ==
    IF sasl THEN ReqLine("", "sasl") ELSE <<"CAP", "END">>

\* the test of line 346 left out
LSSeenNever(server_capabilities) == FALSE

\* if bot.server_capabilities: return
LSSeen(server_capabilities) == server_capabilities # {}

\* the configuration the bot was started with
CapLSInit ==
    /\ l_sasl \in BOOLEAN
    /\ l_server_caps = {}
    /\ l_core_multi = FALSE
    /\ l_sent = <<>>
    /\ l_pc = "waiting"
    /\ l_failed = {}
    /\ l_replies = "none"
    /\ l_got = {}

\* recieve_cap_ls_reply(bot, trigger) when no reply has been seen
CapLSFirst ==
    /\ ~LSSeen(l_server_caps)
    /\ \E server \in ServerLists, order \in LSOrders(LSKeys) :
        LET run == LSLoop(order, 1, server, l_sent, l_failed)
        IN
        /\ l_server_caps' = server
        /\ l_core_multi' = TRUE
        /\ l_sent' = IF run.raised THEN run.sent
                     ELSE Append(run.sent, LSLast(l_sasl))
        /\ l_failed' = run.failed
        /\ l_pc' = IF run.raised THEN "raised" ELSE "concluded"
    /\ l_replies' = IF l_replies = "none" THEN "first" ELSE "later"
    /\ UNCHANGED <<l_sasl, l_got>>
    /\ UNCHANGED OutsideCapLS

\* a later CAP LS reply: the handler returns at once
CapLSAgain ==
    /\ LSSeen(l_server_caps)
    /\ l_replies' = "later"
    /\ UNCHANGED <<l_sasl, l_server_caps, l_core_multi, l_sent, l_pc,
                   l_failed, l_got>>
    /\ UNCHANGED OutsideCapLS

\* cap_req called by a module while it is loaded, before the connection
CapReqEarly ==
    /\ l_replies = "none"
    /\ CapReq

NextCapLS ==
    \/ CapReqEarly
    \/ CapLSFirst
    \/ CapLSAgain

InitCapLS ==
    /\ JobIdle
    /\ SchedInit
    /\ CallInit
    /\ DispIdle
    /\ CapInit
    /\ RejoinInit
    /\ MainIdle
    /\ NamesInit
    /\ UnregInit
    /\ BlocksInit
    /\ SetupIdle
    /\ ConfigInit
    /\ CapLSInit
    /\ RaceInit
    /\ JoinInit
    /\ TierInit
    /\ ModesInit
    /\ TrackIdle
    /\ ShutIdle
    /\ BootIdle
    /\ RegIdle

SpecCapLS == InitCapLS /\ [][NextCapLS]_vars

\* C20: once the first CAP LS reply has been handled, whatever cap_req
\* calls built the registry, LS processing has run to its end and its last
\* line is CAP REQ sasl when a SASL password is configured and CAP END
\* otherwise.
C20_LSConcludes ==
    l_server_caps # {} =>
        /\ l_pc = "concluded"
        /\ l_sent # <<>>
        /\ l_sent[Len(l_sent)] = LSLast(l_sasl)

\* C20 for an empty registry: with no cap_req call before the reply, LS
\* processing concludes
C20_EmptyRegistry ==
    (l_server_caps # {} /\ \A c \in Caps : k_cap_reqs[c] = <<>>) =>
        /\ l_pc = "concluded"
        /\ l_sent[Len(l_sent)] = LSLast(l_sasl)

\* C21: when the first CAP LS reply is handled, every request registered
\* through cap_req gets its own CAP REQ if it is mandatory ('=' or '-'),
\* advertised or not, or if it is unprefixed and the server advertises the
\* capability; for an unprefixed request of a capability that is not
\* advertised the failure callback of the entry is invoked instead.
C21_ReqEmission ==
    [][(l_replies = "none" /\ l_replies' = "first") =>
        \A cap \in Caps : \A i \in 1..Len(k_cap_reqs[cap]) :
            LET prefix == k_cap_reqs[cap][i][1]
                module == k_cap_reqs[cap][i][2]
            IN IF prefix \in {"=", "-"} \/ cap \in l_server_caps'
               THEN ReqLine(prefix, cap) \in Range(l_sent')
               ELSE <<module, cap>> \in l_failed']_vars

\* C22: a CAP LS reply that comes after one that was processed changes
\* neither server_capabilities nor the request registry and writes no line.
C22_LSOnce ==
    [][(l_replies = "first" /\ l_replies' = "later") =>
        /\ l_server_caps' = l_server_caps
        /\ k_cap_reqs' = k_cap_reqs
        /\ l_core_multi' = l_core_multi
        /\ l_sent' = l_sent
        /\ l_failed' = l_failed]_vars

\* a second reply has been handled after a first one that wrote lines
C22_Witness ==
    /\ l_replies = "later"
    /\ l_pc = "concluded"
    /\ Len(l_sent) = 2

(***************************************************************************)
(* coretasks: recieve_cap_list, recieve_cap_ack_sasl, auth_proceed and     *)
(* sasl_success                                                            *)
(***************************************************************************)

\* the most lines the CAP and SASL handlers write in one run
MaxSaslLines == 5

\* ('AUTHENTICATE', mech) and ('AUTHENTICATE', base64 of the token)
AuthMech == <<"AUTHENTICATE", "mech">>

AuthPayload == <<"AUTHENTICATE", "payload">>

CapEnd == <<"CAP", "END">>

\* trigger.args[0] == bot.nick and trigger.args[1] == 'ACK' and
\* 'sasl' in trigger.args[2]
IsSaslAck(target, sub, payload) ==
    target = "bot" /\ sub = "ACK" /\ payload = "sasl"

\* recieve_cap_list for a CAP line that is no LS reply: a NAK writes
\* nothing; an ACK of sasl for the bot goes to recieve_cap_ack_sasl, which
\* writes the mechanism when a password is configured
CapAckNak ==
    /\ Len(l_sent) < MaxSaslLines
    /\ \E target \in {"bot", "*"}, sub \in {"ACK", "NAK"},
          payload \in {"sasl", "away-notify"} :
        /\ l_got' = IF IsSaslAck(target, sub, payload)
                    THEN l_got \cup {"ack"} ELSE l_got
        /\ l_sent' = IF IsSaslAck(target, sub, payload) /\ l_sasl
                     THEN Append(l_sent, AuthMech) ELSE l_sent
    /\ UNCHANGED <<l_sasl, l_server_caps, l_core_multi, l_pc, l_failed,
                   l_replies>>
    /\ UNCHANGED OutsideCapLS

\* auth_proceed: anything but '+' is ignored; the token is built from
\* sasl_password, and joining None raises TypeError
AuthProceed ==
    /\ Len(l_sent) < MaxSaslLines
    /\ \E arg \in {"+", "x"} :
        /\ l_got' = IF arg = "+" THEN l_got \cup {"plus"} ELSE l_got
        /\ l_sent' = IF arg = "+" /\ l_sasl
                     THEN Append(l_sent, AuthPayload) ELSE l_sent
    /\ UNCHANGED <<l_sasl, l_server_caps, l_core_multi, l_pc, l_failed,
                   l_replies>>
    /\ UNCHANGED OutsideCapLS

\* sasl_success: numeric 903
SaslSuccess ==
    /\ Len(l_sent) < MaxSaslLines
    /\ l_got' = l_got \cup {"903"}
    /\ l_sent' = Append(l_sent, CapEnd)
    /\ UNCHANGED <<l_sasl, l_server_caps, l_core_multi, l_pc, l_failed,
                   l_replies>>
    /\ UNCHANGED OutsideCapLS

NextSasl ==
    \/ CapLSFirst
    \/ CapLSAgain
    \/ CapAckNak
    \/ AuthProceed
    \/ SaslSuccess

SpecSasl == InitCapLS /\ [][NextSasl]_vars

\* C23: with a SASL password configured, AUTHENTICATE <mechanism> is sent
\* only after a CAP ACK for the bot's nick that names sasl, the PLAIN
\* payload only after an AUTHENTICATE + challenge, and CAP END only after
\* numeric 903.
C23_SaslOrder ==
    l_sasl =>
        /\ AuthMech \in Range(l_sent) => "ack" \in l_got
        /\ AuthPayload \in Range(l_sent) => "plus" \in l_got
        /\ CapEnd \in Range(l_sent) => "903" \in l_got

\* the whole exchange: LS, the sasl request, its ACK, the challenge, 903
C23_Witness ==
    /\ l_sasl
    /\ l_sent = <<ReqLine("", "multi-prefix"), ReqLine("", "sasl"),
                  AuthMech, AuthPayload, CapEnd>>

(***************************************************************************)
(* coretasks.track_modes run by concurrent handler threads                 *)
(***************************************************************************)

\* the privilege bits the two MODE lines grant
RaceBits == {VOICE, OP}

\* mask & bit, for a single bit
HasBit(mask, bit) == (mask \div bit) % 2 = 1

\* mask | bit, for a single bit
BitOr(mask, bit) == IF HasBit(mask, bit) THEN mask ELSE mask + bit

\* dispatch: func.thread is true for track_modes, so a thread is started
\* for the handler of a MODE line that grants one bit to one nick
ModeSpawn(t) ==
    /\ w_thr[t].pc = "idle"
    /\ \E nick \in RaceNicks, bit \in RaceBits :
        w_thr' = [w_thr EXCEPT ![t] =
                    [pc |-> "read", nick |-> nick, bit |-> bit, priv |-> 0]]
    /\ UNCHANGED <<w_priv, w_granted>>
    /\ UNCHANGED OutsideRace

\* priv = bot.privileges[channel].get(nick) or 0
ModeRead(t) ==
    /\ w_thr[t].pc = "read"
    /\ w_thr' = [w_thr EXCEPT ![t].pc = "write",
                              ![t].priv = w_priv[w_thr[t].nick]]
    /\ UNCHANGED <<w_priv, w_granted>>
    /\ UNCHANGED OutsideRace

\* priv = priv | value; bot.privileges[channel][nick] = priv
ModeWrite(t) ==
    /\ w_thr[t].pc = "write"
    /\ w_priv' = [w_priv EXCEPT ![w_thr[t].nick] =
                    BitOr(w_thr[t].priv, w_thr[t].bit)]
    /\ w_granted' = w_granted \cup {<<w_thr[t].nick, w_thr[t].bit>>}
    /\ w_thr' = [w_thr EXCEPT ![t] = NoModeThread]
    /\ UNCHANGED OutsideRace

NextRace ==
    \E t \in ModeThreads :
        \/ ModeSpawn(t)
        \/ ModeRead(t)
        \/ ModeWrite(t)

InitRace ==
    /\ JobIdle
    /\ SchedInit
    /\ CallInit
    /\ DispIdle
    /\ CapInit
    /\ RejoinInit
    /\ MainIdle
    /\ NamesInit
    /\ UnregInit
    /\ BlocksInit
    /\ SetupIdle
    /\ ConfigInit
    /\ CapLSIdle
    /\ RaceInit
    /\ JoinInit
    /\ TierInit
    /\ ModesInit
    /\ TrackIdle
    /\ ShutIdle
    /\ BootIdle
    /\ RegIdle

SpecRace == InitRace /\ [][NextRace]_vars

\* C24: once the threaded handlers of MODE lines that grant bits to a nick
\* have all finished, the nick's bitmask holds every bit they granted,
\* whatever the interleaving of the handlers.
C24_NoLostUpdate ==
    (\A t \in ModeThreads : w_thr[t].pc = "idle") =>
        \A g \in w_granted : HasBit(w_priv[g[1]], g[2])

(***************************************************************************)
(* coretasks.track_join on its thread, beside the inline handle_names      *)
(***************************************************************************)

\* the channel the bot joins and the key of the bot's own nick
JoinChan == <<"#", "x">>

BotKey == <<"a">>

\* dispatch: the bot's own JOIN arrives and the handler thread is started
JoinSpawn ==
    /\ tj_pc = "none"
    /\ n_pc = "idle"
    /\ tj_pc' = "test"
    /\ UNCHANGED tj_channels
    /\ UNCHANGED OutsideJoin

\* if trigger.nick == bot.nick and trigger.sender not in bot.channels
JoinTest ==
    /\ tj_pc = "test"
    /\ tj_pc' = IF JoinChan \notin tj_channels THEN "append" ELSE "set"
    /\ UNCHANGED tj_channels
    /\ UNCHANGED OutsideJoin

\* bot.channels.append(trigger.sender)
JoinAppend ==
    /\ tj_pc = "append"
    /\ tj_channels' = tj_channels \cup {JoinChan}
    /\ tj_pc' = "reset"
    /\ UNCHANGED OutsideJoin

\* bot.privileges[trigger.sender] = dict()
JoinResetMap(privileges) ==
    [privileges EXCEPT ![JoinChan] = [k \in PrivKeys |-> -1]]

JoinReset ==
    /\ tj_pc = "reset"
    /\ n_privileges' = JoinResetMap(n_privileges)
    /\ n_tracked' = n_tracked \cup {JoinChan}
    /\ tj_pc' = "set"
    /\ UNCHANGED <<tj_channels, n_before, n_reply, n_pc>>
    /\ UNCHANGED OutsideJoinNames

\* bot.privileges[trigger.sender][trigger.nick] = 0; a KeyError ends in
\* the except clause
JoinSet ==
    /\ tj_pc = "set"
    /\ n_privileges' =
         IF JoinChan \in n_tracked
         THEN [n_privileges EXCEPT ![JoinChan][BotKey] = 0]
         ELSE n_privileges
    /\ tj_pc' = "done"
    /\ UNCHANGED <<tj_channels, n_tracked, n_before, n_reply, n_pc>>
    /\ UNCHANGED OutsideJoinNames

\* the server answers the JOIN with the 353 reply
JoinNamesReceive ==
    /\ tj_pc # "none"
    /\ NamesReceive

NextJoin ==
    \/ JoinSpawn
    \/ JoinTest
    \/ JoinAppend
    \/ JoinReset
    \/ JoinSet
    \/ JoinNamesReceive
    \/ HandleNames
    \/ NamesNextLine

InitJoin ==
    /\ JobIdle
    /\ SchedInit
    /\ CallInit
    /\ DispIdle
    /\ CapInit
    /\ RejoinInit
    /\ MainIdle
    /\ NamesInit
    /\ UnregInit
    /\ BlocksInit
    /\ SetupIdle
    /\ ConfigInit
    /\ CapLSIdle
    /\ RaceInit
    /\ JoinInit
    /\ TierInit
    /\ ModesInit
    /\ TrackIdle
    /\ ShutIdle
    /\ BootIdle
    /\ RegIdle

SpecJoin == InitJoin /\ [][NextJoin]_vars

\* C25: after the bot's own JOIN and the 353 reply for the channel, once
\* the JOIN handler and the NAMES handler have both finished, the entry of
\* each listed name is the one the NAMES payload gives, whatever the
\* interleaving of the two handlers.
C25_JoinThenNames ==
    (tj_pc = "done" /\ n_pc = "done") =>
        LET chan == n_reply.raw[3]
            names == SubSeq(n_reply.raw, 4, Len(n_reply.raw))
        IN /\ chan \in n_tracked
           /\ \A i \in 1..Len(names) :
                 n_privileges[chan][NickKey(BareName(names[i]))]
                     = LeadingBits(names[i])

(***************************************************************************)
(* Sopel.JobScheduler with an advancing clock: times are kept relative to  *)
(* the current clock reading, which stays the origin                        *)
(***************************************************************************)

\* the two jobs bind_commands has queued
StarveJobs == {1, 2}

\* a next_time this far behind the clock is beyond the catch-up cap of
\* every interval, and Job.next() gives the same result for all of them
LateFloor == (max_catchup + 1) * MaxSchedInterval + 1

\* setup() is over: both jobs are queued, one interval ahead of the clock,
\* and the worker enters _do_next_job
StarveInit ==
    /\ s_now = 0
    /\ s_jobs = StarveJobs
    /\ s_ival \in {f \in [JobIds -> 0..MaxSchedInterval] :
                     \A j \in JobIds : f[j] > 0 <=> j \in StarveJobs}
    /\ s_next = s_ival
    /\ s_thread \in {f \in [JobIds -> BOOLEAN] :
                       \A j \in JobIds : f[j] => j = 2}
    /\ s_created = StarveJobs
    /\ s_mutex = "free"
    /\ s_cleared = FALSE
    /\ s_wpc = "lock"
    /\ s_cur = 0
    /\ s_mpc = "idle"
    /\ s_last = 0
    /\ s_clearInExec = FALSE
    /\ s_ran = {}
    /\ s_fail = FALSE
    /\ s_nexted = FALSE

\* the next_times beyond LateFloor keep their order, which is all the
\* queue and Job.next() read of them, and lose their distance
Compress(next) ==
    LET late == {next[j] : j \in StarveJobs} \cap {v \in Int : v <= -LateFloor}
    IN [j \in JobIds |->
          IF j \in StarveJobs /\ next[j] <= -LateFloor
          THEN -LateFloor - Cardinality({v \in late : v > next[j]})
          ELSE next[j]]

\* one second passes: every next_time is one second further behind, or less
\* far ahead of, the clock
StarveTick ==
    /\ s_next' = Compress([j \in JobIds |->
                    IF j \in StarveJobs THEN s_next[j] - 1 ELSE s_next[j]])
    /\ UNCHANGED <<s_now, s_jobs, s_ival, s_thread, s_created, s_mutex,
                   s_cleared, s_wpc, s_cur, s_mpc, s_last, s_clearInExec,
                   s_ran, s_fail, s_nexted>>
    /\ UNCHANGED OutsideSched

NextStarve ==
    \/ StarveTick
    \/ WorkerLock
    \/ WorkerPeek
    \/ WorkerWake
    \/ WorkerGet
    \/ WorkerCall
    \/ WorkerNext
    \/ WorkerPut

InitStarve ==
    /\ JobIdle
    /\ StarveInit
    /\ CallInit
    /\ DispIdle
    /\ CapInit
    /\ RejoinInit
    /\ MainIdle
    /\ NamesInit
    /\ UnregInit
    /\ BlocksInit
    /\ SetupIdle
    /\ ConfigInit
    /\ CapLSIdle
    /\ RaceInit
    /\ JoinInit
    /\ TierInit
    /\ ModesInit
    /\ TrackIdle
    /\ ShutIdle
    /\ BootIdle
    /\ RegIdle

\* the clock advances, the worker thread keeps running and the handlers
\* return
SpecStarve ==
    /\ InitStarve
    /\ [][NextStarve]_vars
    /\ WF_vars(StarveTick)
    /\ WF_vars(WorkerLock)
    /\ WF_vars(WorkerPeek)
    /\ WF_vars(WorkerWake)
    /\ WF_vars(WorkerGet)
    /\ WF_vars(WorkerCall)
    /\ WF_vars(WorkerNext)
    /\ WF_vars(WorkerPut)

\* C27: with no clear_jobs call, an advancing clock and handlers that
\* return, every job that is in the queue is eventually executed again,
\* however late the other job runs.
C27_NoStarvation ==
    \A j \in StarveJobs : (j \in s_jobs) ~> (s_wpc = "next" /\ s_cur = j)

\* job 1 is so late that next() applied the catch-up cap, and job 2, which
\* has run before, waits in the queue
C27_Witness ==
    /\ s_wpc = "put"
    /\ s_cur = 1
    /\ s_next[1] = -(max_catchup * s_ival[1])
    /\ 2 \in s_jobs
    /\ 2 \in s_ran

(***************************************************************************)
(* Sopel.dispatch, handler by handler, with the handler threads            *)
(***************************************************************************)

Tiers == {"high", "medium", "low"}

\* the priority under which bind_commands has bound the handler
TierOf(f) ==
    CHOOSE tier \in Tiers :
        \E k \in 1..Len(Commands[tier]) : f \in Range(Commands[tier][k].funcs)

\* for priority in ('high', 'medium', 'low'): the place of a tier
TierRank(tier) ==
    IF tier = "high" THEN 1 ELSE IF tier = "medium" THEN 2 ELSE 3

\* dispatch() is entered for the line: the block flags are computed and
\* list_of_blocked_functions is empty
TierEnter ==
    /\ d_pc = "recv"
    /\ d_pc' = "loop"
    /\ dl_idx' = 1
    /\ dl_body' = [f \in DispFuncs |-> "none"]
    /\ d_started' = <<>>
    /\ d_blocked' = <<>>
    /\ UNCHANGED <<d_nick_blocks, d_host_blocks, d_admins, d_owner, d_limit,
                   d_line, d_debug, d_raised, d_fail, d_errors>>
    /\ UNCHANGED OutsideTierDisp

\* one pass of the innermost loop, lines 698-716: the handler is skipped,
\* limit() raises, a thread is started for it, or call() is entered on the
\* dispatching thread
TierStep ==
    /\ d_pc = "loop"
    /\ dl_idx <= Len(Candidates(d_line.text))
    /\ LET f == Candidates(d_line.text)[dl_idx]
           step == HandlerStep(d_line, f)
       IN /\ d_blocked' = IF step = "blocked" THEN Append(d_blocked, f)
                          ELSE d_blocked
          /\ d_started' = IF step = "start" THEN Append(d_started, f)
                          ELSE d_started
          /\ dl_body' = IF step = "start"
                        THEN [dl_body EXCEPT ![f] = "running"]
                        ELSE dl_body
          /\ d_raised' = (step = "raise")
          /\ d_pc' = IF step = "raise" THEN "done"
                     ELSE IF step = "start" /\ ~HThread(f) THEN "call"
                     ELSE "loop"
          /\ dl_idx' = IF step = "raise" \/ (step = "start" /\ ~HThread(f))
                       THEN dl_idx ELSE dl_idx + 1
    /\ UNCHANGED <<d_nick_blocks, d_host_blocks, d_admins, d_owner, d_limit,
                   d_line, d_debug, d_fail, d_errors>>
    /\ UNCHANGED OutsideTierDisp

\* self.call(func, origin, wrapper, trigger) returns to the loop
TierReturn ==
    /\ d_pc = "call"
    /\ LET f == Candidates(d_line.text)[dl_idx]
       IN /\ dl_body' = [dl_body EXCEPT ![f] = "done"]
          /\ d_errors' = d_errors \cup ({f} \cap d_fail)
          /\ d_raised' = CallPropagates(f)
          /\ d_pc' = IF CallPropagates(f) THEN "done" ELSE "loop"
    /\ dl_idx' = dl_idx + 1
    /\ UNCHANGED <<d_nick_blocks, d_host_blocks, d_admins, d_owner, d_limit,
                   d_line, d_started, d_blocked, d_debug, d_fail>>
    /\ UNCHANGED OutsideTierDisp

\* threading.Thread(target=self.call, args=targs): call() returns on the
\* thread of the handler
TierThreadEnd ==
    /\ \E f \in DispFuncs :
        /\ HThread(f)
        /\ dl_body[f] = "running"
        /\ dl_body' = [dl_body EXCEPT ![f] = "done"]
        /\ d_errors' = d_errors \cup ({f} \cap d_fail)
    /\ UNCHANGED <<d_nick_blocks, d_host_blocks, d_admins, d_owner, d_limit,
                   d_pc, d_line, d_started, d_blocked, d_debug, d_raised,
                   d_fail, dl_idx>>
    /\ UNCHANGED OutsideTierDisp

\* the loops are over: lines 718-733 report the blocked handlers
TierLeave ==
    /\ d_pc = "loop"
    /\ dl_idx > Len(Candidates(d_line.text))
    /\ d_debug' =
         IF d_blocked = <<>> THEN "none"
         ELSE IF LineNickBlocked(d_line) /\ LineHostBlocked(d_line)
              THEN "both"
         ELSE IF LineNickBlocked(d_line) THEN "nick"
         ELSE "host"
    /\ d_pc' = "done"
    /\ UNCHANGED <<d_nick_blocks, d_host_blocks, d_admins, d_owner, d_limit,
                   d_line, d_started, d_blocked, d_raised, d_fail, d_errors,
                   dl_idx, dl_body>>
    /\ UNCHANGED OutsideTierDisp

\* the next line is read once the handler threads of this one are over
TierNextLine ==
    /\ d_pc = "done"
    /\ \A f \in DispFuncs : dl_body[f] # "running"
    /\ d_pc' = "idle"
    /\ d_line' = NoLine
    /\ d_started' = <<>>
    /\ d_blocked' = <<>>
    /\ d_debug' = "none"
    /\ d_raised' = FALSE
    /\ d_fail' = {}
    /\ d_errors' = {}
    /\ dl_idx' = 0
    /\ dl_body' = [f \in DispFuncs |-> "none"]
    /\ UNCHANGED <<d_nick_blocks, d_host_blocks, d_admins, d_owner, d_limit>>
    /\ UNCHANGED OutsideTierDisp

NextTier ==
    \/ Receive
    \/ TierEnter
    \/ TierStep
    \/ TierReturn
    \/ TierThreadEnd
    \/ TierLeave
    \/ TierNextLine

InitTier ==
    /\ JobIdle
    /\ SchedInit
    /\ CallInit
    /\ DispInit
    /\ CapInit
    /\ RejoinInit
    /\ MainIdle
    /\ NamesInit
    /\ UnregInit
    /\ BlocksInit
    /\ SetupIdle
    /\ ConfigInit
    /\ CapLSIdle
    /\ RaceInit
    /\ JoinInit
    /\ TierInit
    /\ ModesInit
    /\ TrackIdle
    /\ ShutIdle
    /\ BootIdle
    /\ RegIdle

SpecTier == InitTier /\ [][NextTier]_vars

\* C28: within one line, when a handler has been started, every handler of
\* a higher tier that the line starts was started before it: its thread
\* was spawned, or it ran on the dispatching thread and has returned.
C28_TierOrder ==
    \A i \in 1..Len(d_started) :
        \A g \in Range(Candidates(d_line.text)) :
            (/\ TierRank(TierOf(g)) < TierRank(TierOf(d_started[i]))
             /\ IsStart(d_line, g))
            => /\ \E j \in 1..(i - 1) : d_started[j] = g
               /\ dl_body[g] = IF HThread(g) THEN dl_body[g] ELSE "done"
               /\ dl_body[g] # "none"

\* the high handler ran inline, the two medium handlers were spawned and the
\* low handler ran inline and returned while the thread of a medium one
\* still runs
C28_Witness ==
    /\ d_pc = "done"
    /\ d_started = <<"track", "help", "help2", "echo">>
    /\ dl_body["help"] = "running"
    /\ dl_body["echo"] = "done"

(***************************************************************************)
(* coretasks.track_modes: one MODE line after the other                    *)
(***************************************************************************)

\* Largest number of nick arguments of a MODE line
MaxModeNicks == 2

ModeNicks == {"a", "b"}

\* the targets of the lines: a channel and a user
ModeTargets == {<<"#", "c">>, <<"u">>}

\* the mode strings of the lines, character by character
ModeSecs ==
    {<<"+", "o">>, <<"-", "o">>, <<"+", "v">>, <<"-", "v">>,
     <<"+", "h">>, <<"-", "q">>, <<"+", "o", "v">>,
     <<"+", "o", "-", "v">>, <<"+", "t", "o">>, <<"o">>, <<"+">>}

NickLists == UNION {[1..n -> ModeNicks] : n \in 0..MaxModeNicks}

\* for char in mode_sec: the sign is remembered, every other character
\* becomes the string sign + char
RECURSIVE ParseModes(_, _)
ParseModes(mode_sec, sign) ==
    IF mode_sec = <<>> THEN <<>>
    ELSE IF Head(mode_sec) \in {"+", "-"}
         THEN ParseModes(Tail(mode_sec), Head(mode_sec))
         ELSE <<[sign |-> sign, char |-> Head(mode_sec)]>>
                  \o ParseModes(Tail(mode_sec), sign)

\* q[:n]
Slice(q, n) ==
    IF n >= Len(q) THEN q
    ELSE IF n >= 0 THEN SubSeq(q, 1, n)
    ELSE IF Len(q) + n > 0 THEN SubSeq(q, 1, Len(q) + n)
    ELSE <<>>

\* elif len(modes) < len(nicks): nicks = nicks[:(len(modes) - 1)]
TruncNicks(modes, nicks) ==
    IF Len(modes) < Len(nicks) THEN Slice(nicks, Len(modes) - 1) ELSE nicks

\* if len(modes) > len(nicks): modes = modes[:(len(nicks) + 1)]
TruncModes(modes, nicks) ==
    IF Len(modes) > Len(nicks) THEN Slice(modes, Len(nicks) + 1) ELSE modes

\* mapping.get(mode[1]); 0 stands for None
ModeBit(char) ==
    IF char = "v" THEN VOICE
    ELSE IF char = "h" THEN HALFOP
    ELSE IF char = "o" THEN OP
    ELSE IF char = "a" THEN ADMIN
    ELSE IF char = "q" THEN OWNER
    ELSE 0

\* bot.privileges[channel].get(nick) or 0
PrivOrZero(priv, nick) == IF priv[nick] < 0 THEN 0 ELSE priv[nick]

\* bot.add_op, add_halfop, add_voice and bot.del_op, del_halfop, del_voice
AddLegacy(list, nick) == list \cup {nick}

DelLegacy(list, nick) == list \ {nick}

Legacy(list, sign, nick) ==
    IF sign = "+" THEN AddLegacy(list, nick) ELSE DelLegacy(list, nick)

\* the body of the loop over zip(nicks, modes) for one pair
ModePair(st, nick, mode) ==
    [priv    |-> IF ModeBit(mode.char) # 0
                 THEN [st.priv EXCEPT ![nick] =
                          BitOr(PrivOrZero(st.priv, nick), ModeBit(mode.char))]
                 ELSE st.priv,
     ops     |-> IF mode.char \in {"o", "q", "a"}
                 THEN Legacy(st.ops, mode.sign, nick) ELSE st.ops,
     halfops |-> IF mode.char = "h"
                 THEN Legacy(st.halfops, mode.sign, nick) ELSE st.halfops,
     voices  |-> IF mode.char = "v"
                 THEN Legacy(st.voices, mode.sign, nick) ELSE st.voices,
     raised  |-> FALSE]

\* for nick, mode in zip(nicks, modes); mode[1] of a mode without sign
\* raises IndexError, which ends the handler
RECURSIVE ModeLoop(_, _, _)
ModeLoop(st, nicks, modes) ==
    IF nicks = <<>> \/ modes = <<>> THEN st
    ELSE IF Head(modes).sign = "" THEN [st EXCEPT !.raised = TRUE]
    ELSE ModeLoop(ModePair(st, Head(nicks), Head(modes)),
                  Tail(nicks), Tail(modes))

\* track_modes(bot, trigger)
TrackModesOf(st, line) ==
    IF Head(line.target) # "#" THEN st
    ELSE LET parsed == ParseModes(line.mode_sec, "")
             modes == TruncModes(parsed, line.nicks)
             nicks == TruncNicks(parsed, line.nicks)
         IN IF modes = <<>> \/ nicks = <<>> THEN st
            ELSE ModeLoop(st, nicks, modes)

\* dispatch hands a MODE line to the handler
ModeReceive ==
    /\ tm_pc = "idle"
    /\ \E target \in ModeTargets, mode_sec \in ModeSecs, nicks \in NickLists :
        tm_line' = [target |-> target, mode_sec |-> mode_sec,
                    nicks |-> nicks]
    /\ tm_pc' = "recv"
    /\ UNCHANGED <<tm_st, tm_before>>
    /\ UNCHANGED OutsideModes

\* the handler runs from its first line to its return
TrackModes ==
    /\ tm_pc = "recv"
    /\ tm_st' = TrackModesOf(tm_st, tm_line)
    /\ tm_pc' = "done"
    /\ UNCHANGED <<tm_line, tm_before>>
    /\ UNCHANGED OutsideModes

\* the next MODE line is read
ModeNextLine ==
    /\ tm_pc = "done"
    /\ tm_pc' = "idle"
    /\ tm_line' = [target |-> <<>>, mode_sec |-> <<>>, nicks |-> <<>>]
    /\ tm_st' = [tm_st EXCEPT !.raised = FALSE]
    /\ tm_before' = [tm_st EXCEPT !.raised = FALSE]
    /\ UNCHANGED OutsideModes

NextModes ==
    \/ ModeReceive
    \/ TrackModes
    \/ ModeNextLine

InitModes ==
    /\ JobIdle
    /\ SchedInit
    /\ CallInit
    /\ DispIdle
    /\ CapInit
    /\ RejoinInit
    /\ MainIdle
    /\ NamesInit
    /\ UnregInit
    /\ BlocksInit
    /\ SetupIdle
    /\ ConfigInit
    /\ CapLSIdle
    /\ RaceInit
    /\ JoinInit
    /\ TierInit
    /\ ModesInit
    /\ TrackIdle
    /\ ShutIdle
    /\ BootIdle
    /\ RegIdle

SpecModes == InitModes /\ [][NextModes]_vars

\* the pairs of the line: the k-th nick with the k-th signed mode
LinePairs(line) ==
    LET modes == ParseModes(line.mode_sec, "")
        n == Min(Len(modes), Len(line.nicks))
    IN [k \in 1..n |-> [nick |-> line.nicks[k], mode |-> modes[k]]]

\* every mode character of the line stands behind a sign
AllSigned(line) ==
    \A k \in 1..Len(ParseModes(line.mode_sec, "")) :
        ParseModes(line.mode_sec, "")[k].sign # ""

\* the legacy lists after the pairs: added on +, removed on -
RECURSIVE LegacyAfter(_, _)
LegacyAfter(st, pairs) ==
    IF pairs = <<>> THEN st
    ELSE LegacyAfter([ModePair(st, Head(pairs).nick, Head(pairs).mode)
                         EXCEPT !.priv = st.priv],
                     Tail(pairs))

\* C30: after the handler of a channel MODE line, every pair of a nick and
\* a signed mode among v, h, o, a, q has its bit set for the nick, no bit
\* that was set is cleared, and the legacy lists have the nick added on +
\* and removed on -; a line for a user leaves everything as it was.
C30_ModeTracking ==
    (tm_pc = "done" /\ AllSigned(tm_line))
    => IF Head(tm_line.target) # "#"
       THEN tm_st = tm_before
       ELSE /\ \A k \in 1..Len(LinePairs(tm_line)) :
                 LET p == LinePairs(tm_line)[k]
                 IN ModeBit(p.mode.char) # 0
                    => HasBit(PrivOrZero(tm_st.priv, p.nick),
                              ModeBit(p.mode.char))
            /\ \A n \in ModeNicks :
                 \A bit \in {VOICE, HALFOP, OP, ADMIN, OWNER} :
                    HasBit(PrivOrZero(tm_before.priv, n), bit)
                    => HasBit(PrivOrZero(tm_st.priv, n), bit)
            /\ LET after == LegacyAfter(tm_before, LinePairs(tm_line))
               IN /\ tm_st.ops = after.ops
                  /\ tm_st.halfops = after.halfops
                  /\ tm_st.voices = after.voices

(***************************************************************************)
(* coretasks: track_nicks, track_part, track_kick, track_join, track_quit  *)
(***************************************************************************)

\* Largest number of lines handled
MaxTrackLines == 2

TkChans == {"#x", "#y"}

\* bot.nick and the nicks of the users
OwnNick == "s"

TkNicks == {"a", "b", "c", "s"}

\* what the NAMES reply of a channel said of a user
Ranks == {"absent", "plain", "voice", "halfop", "op"}

RankPriv(rank) ==
    IF rank = "absent" THEN -1
    ELSE IF rank = "voice" THEN VOICE
    ELSE IF rank = "halfop" THEN HALFOP
    ELSE IF rank = "op" THEN OP
    ELSE 0

\* the bot has joined #x, or #x and #y, and handle_names has stored the
\* users a and b of each channel with their prefixes
TrackStart ==
    /\ tk_pc = "idle"
    /\ tk_line = [event |-> "", nick |-> "", sender |-> "", arg |-> ""]
    /\ \E chans \in {{"#x"}, TkChans},
          rank \in [TkChans -> [{"a", "b"} -> Ranks]] :
        /\ rank["#y"]["b"] = "absent"
        /\ rank["#y"]["a"] \in {"absent", "op"}
        /\ rank["#x"]["b"] \in {"absent", "plain", "op"}
        /\ "#y" \notin chans => rank["#y"]["a"] = "absent"
        /\ tk_st =
             [channels |-> chans,
              tracked |-> chans,
              priv |-> [c \in TkChans |-> [n \in TkNicks |->
                          IF n \in {"a", "b"} THEN RankPriv(rank[c][n])
                          ELSE IF n = OwnNick /\ c \in chans THEN 0
                          ELSE -1]],
              ops |-> [c \in TkChans |->
                         {n \in {"a", "b"} : rank[c][n] = "op"}],
              halfops |-> [c \in TkChans |->
                         {n \in {"a", "b"} : rank[c][n] \in {"op", "halfop"}}],
              voices |-> [c \in TkChans |->
                         {n \in {"a", "b"} :
                            rank[c][n] \in {"op", "halfop", "voice"}}]]
    /\ tk_before = tk_st
    /\ tk_out = [debug |-> FALSE, msg |-> FALSE, raised |-> FALSE,
                 isop |-> FALSE, isvoice |-> FALSE]
    /\ tk_left = {}
    /\ tk_n = 0

NoOut == [debug |-> FALSE, msg |-> FALSE, raised |-> FALSE,
          isop |-> FALSE, isvoice |-> FALSE]

\* the lines of each event that differ in what the handlers read
TrackLines ==
    {[event |-> "NICK", nick |-> n, sender |-> "", arg |-> m] :
        n \in {"a", "b", OwnNick}, m \in {"a", "c"}}
    \cup {[event |-> "PART", nick |-> n, sender |-> c, arg |-> ""] :
        n \in {"a", "b", OwnNick}, c \in TkChans}
    \cup {[event |-> "JOIN", nick |-> n, sender |-> c, arg |-> ""] :
        n \in {"a", OwnNick}, c \in TkChans}
    \cup {[event |-> "PRIVMSG", nick |-> n, sender |-> c, arg |-> ""] :
        n \in {"a", "c"}, c \in TkChans}
    \cup {[event |-> "KICK", nick |-> "b", sender |-> c, arg |-> m] :
        c \in TkChans, m \in {"a", OwnNick}}
    \cup {[event |-> "QUIT", nick |-> n, sender |-> "", arg |-> ""] :
        n \in {"a", "b"}}

\* dispatch hands the line to its handler
TrackReceive ==
    /\ tk_pc = "idle"
    /\ tk_n < MaxTrackLines
    /\ tk_line' \in TrackLines
    /\ tk_n' = tk_n + 1
    /\ tk_pc' = "recv"
    /\ UNCHANGED <<tk_st, tk_before, tk_out, tk_left>>
    /\ UNCHANGED OutsideTrack

\* the string literals of privmsg in track_nicks: the number of conversion
\* specifiers in each
PrivmsgPieces == <<1, 0, 0, 0, 0, 0, 0, 0, 0>>

\* literal % bot.nick: one argument that is neither tuple nor mapping
Percent(specifiers) == IF specifiers = 1 THEN "str" ELSE "TypeError"

\* "..." + "..." + ... + "..." % bot.nick: % binds tighter than +, so it
\* is applied to the last literal alone
PrivmsgValue == Percent(PrivmsgPieces[Len(PrivmsgPieces)])

\* value = bot.privileges[channel].pop(old) without the pop
MovePrivCopy(chanprivs, old, new) ==
    [chanprivs EXCEPT ![new] = chanprivs[old]]

\* value = bot.privileges[channel].pop(old);
\* bot.privileges[channel][new] = value
MovePriv(chanprivs, old, new) ==
    LET value == chanprivs[old]
        popped == [chanprivs EXCEPT ![old] = -1]
    IN [popped EXCEPT ![new] = value]

\* bot.del_op(channel, old); bot.add_op(channel, new), and the same for
\* the other two lists
MoveLegacy(list, old, new) ==
    IF old \in list THEN AddLegacy(DelLegacy(list, old), new) ELSE list

\* track_nicks for a nick that is not the bot's
TrackNicksOf(st, old, new) ==
    [st EXCEPT
        !.priv = [c \in TkChans |->
                    IF c \in st.tracked /\ st.priv[c][old] >= 0
                    THEN MovePriv(st.priv[c], old, new) ELSE st.priv[c]],
        !.halfops = [c \in TkChans |-> MoveLegacy(st.halfops[c], old, new)],
        !.ops = [c \in TkChans |-> MoveLegacy(st.ops[c], old, new)],
        !.voices = [c \in TkChans |-> MoveLegacy(st.voices[c], old, new)]]

\* track_nicks(bot, trigger)
TrackNicks ==
    /\ tk_pc = "recv"
    /\ tk_line.event = "NICK"
    /\ IF tk_line.nick = OwnNick
       THEN /\ tk_out' = [NoOut EXCEPT
                            !.raised = (PrivmsgValue = "TypeError"),
                            !.debug = (PrivmsgValue # "TypeError"),
                            !.msg = (PrivmsgValue # "TypeError")]
            /\ tk_st' = tk_st
       ELSE /\ tk_out' = NoOut
            /\ tk_st' = TrackNicksOf(tk_st, tk_line.nick, tk_line.arg)
    /\ tk_left' = {p \in tk_left : p[2] \notin {tk_line.nick, tk_line.arg}}
    /\ tk_pc' = "done"
    /\ UNCHANGED <<tk_line, tk_before, tk_n>>
    /\ UNCHANGED OutsideTrack

\* the bot leaves with only its own entry of the channel deleted
LeaveOfEntryOnly(st, channel, nick) ==
    IF channel \in st.tracked /\ st.priv[channel][nick] >= 0
    THEN [st EXCEPT !.priv[channel][nick] = -1]
    ELSE st

\* the try block of track_part and track_kick for the nick that leaves;
\* list.remove raises ValueError and del raises KeyError, and the except
\* clause passes
LeaveOf(st, channel, nick) ==
    IF nick = OwnNick
    THEN IF channel \notin st.channels THEN st
         ELSE IF channel \notin st.tracked
              THEN [st EXCEPT !.channels = st.channels \ {channel}]
              ELSE [st EXCEPT
                       !.channels = st.channels \ {channel},
                       !.tracked = st.tracked \ {channel},
                       !.priv[channel] = [n \in TkNicks |-> -1]]
    ELSE IF channel \in st.tracked /\ st.priv[channel][nick] >= 0
         THEN [st EXCEPT !.priv[channel][nick] = -1]
         ELSE st

\* the users of a channel that the legacy lists or the map know
Known(st, channel, nick) ==
    \/ st.priv[channel][nick] >= 0
    \/ nick \in st.ops[channel] \cup st.halfops[channel] \cup st.voices[channel]

\* track_part(bot, trigger)
TrackPart ==
    /\ tk_pc = "recv"
    /\ tk_line.event = "PART"
    /\ tk_st' = LeaveOf(tk_st, tk_line.sender, tk_line.nick)
    /\ tk_left' = tk_left \cup
                    {p \in {<<tk_line.sender, tk_line.nick>>} :
                        Known(tk_st, p[1], p[2])}
    /\ tk_out' = NoOut
    /\ tk_pc' = "done"
    /\ UNCHANGED <<tk_line, tk_before, tk_n>>
    /\ UNCHANGED OutsideTrack

\* track_kick(bot, trigger): nick = Nick(trigger.args[1])
TrackKick ==
    /\ tk_pc = "recv"
    /\ tk_line.event = "KICK"
    /\ tk_st' = LeaveOf(tk_st, tk_line.sender, tk_line.arg)
    /\ tk_left' = tk_left \cup
                    {p \in {<<tk_line.sender, tk_line.arg>>} :
                        Known(tk_st, p[1], p[2])}
    /\ tk_out' = NoOut
    /\ tk_pc' = "done"
    /\ UNCHANGED <<tk_line, tk_before, tk_n>>
    /\ UNCHANGED OutsideTrack

\* track_join(bot, trigger), from its first line to its return
TrackJoinOf(st, channel, nick) ==
    LET own == nick = OwnNick /\ channel \notin st.channels
        joined == IF own
                  THEN [st EXCEPT
                           !.channels = st.channels \cup {channel},
                           !.tracked = st.tracked \cup {channel},
                           !.priv[channel] = [n \in TkNicks |-> -1]]
                  ELSE st
    IN IF channel \in joined.tracked
       THEN [joined EXCEPT !.priv[channel][nick] = 0]
       ELSE joined

TrackJoin ==
    /\ tk_pc = "recv"
    /\ tk_line.event = "JOIN"
    /\ tk_st' = TrackJoinOf(tk_st, tk_line.sender, tk_line.nick)
    /\ tk_out' = NoOut
    /\ tk_pc' = "done"
    /\ UNCHANGED <<tk_line, tk_before, tk_left, tk_n>>
    /\ UNCHANGED OutsideTrack

\* track_quit(bot, trigger)
TrackQuitOf(st, nick) ==
    [st EXCEPT !.priv = [c \in TkChans |->
                           IF c \in st.tracked
                           THEN [st.priv[c] EXCEPT ![nick] = -1]
                           ELSE st.priv[c]]]

TrackQuit ==
    /\ tk_pc = "recv"
    /\ tk_line.event = "QUIT"
    /\ tk_st' = TrackQuitOf(tk_st, tk_line.nick)
    /\ tk_left' = tk_left \cup
                    {p \in TkChans \X {tk_line.nick} :
                        Known(tk_st, p[1], p[2])}
    /\ tk_out' = NoOut
    /\ tk_pc' = "done"
    /\ UNCHANGED <<tk_line, tk_before, tk_n>>
    /\ UNCHANGED OutsideTrack

\* Trigger.__new__ for a channel line: s.isop and s.isvoice
TriggerIsOp(st, channel, nick) ==
    nick \in st.ops[channel] \/ nick \in st.halfops[channel]

TriggerIsVoice(st, channel, nick) ==
    \/ nick \in st.ops[channel]
    \/ nick \in st.halfops[channel]
    \/ nick \in st.voices[channel]

\* dispatch builds the Trigger of a PRIVMSG line from a channel
BuildTrigger ==
    /\ tk_pc = "recv"
    /\ tk_line.event = "PRIVMSG"
    /\ tk_out' = [NoOut EXCEPT
                    !.isop = TriggerIsOp(tk_st, tk_line.sender, tk_line.nick),
                    !.isvoice =
                        TriggerIsVoice(tk_st, tk_line.sender, tk_line.nick)]
    /\ tk_pc' = "done"
    /\ UNCHANGED <<tk_line, tk_st, tk_before, tk_left, tk_n>>
    /\ UNCHANGED OutsideTrack

\* the next line is read
TrackNextLine ==
    /\ tk_pc = "done"
    /\ tk_pc' = "idle"
    /\ tk_line' = [event |-> "", nick |-> "", sender |-> "", arg |-> ""]
    /\ tk_before' = tk_st
    /\ tk_out' = NoOut
    /\ UNCHANGED <<tk_st, tk_left, tk_n>>
    /\ UNCHANGED OutsideTrack

NextTrack ==
    \/ TrackReceive
    \/ TrackNicks
    \/ TrackPart
    \/ TrackKick
    \/ TrackJoin
    \/ TrackQuit
    \/ BuildTrigger
    \/ TrackNextLine

InitTrack ==
    /\ JobIdle
    /\ SchedInit
    /\ CallInit
    /\ DispIdle
    /\ CapInit
    /\ RejoinInit
    /\ MainIdle
    /\ NamesInit
    /\ UnregInit
    /\ BlocksInit
    /\ SetupIdle
    /\ ConfigInit
    /\ CapLSIdle
    /\ RaceInit
    /\ JoinInit
    /\ TierInit
    /\ ModesInit
    /\ TrackStart
    /\ ShutIdle
    /\ BootIdle
    /\ RegIdle

SpecTrack == InitTrack /\ [][NextTrack]_vars

\* the three legacy lists of a state
LegacyLists(st) == <<st.ops, st.halfops, st.voices>>

\* C31: after a NICK line from old to new, old not being the bot's nick, in
\* every channel whose map held old, new holds the bitmask old had and old
\* is absent unless both are the same; membership of old in each legacy
\* list has passed to new; the entries of all other nicks are unchanged.
C31_NickMigration ==
    (tk_pc = "done" /\ tk_line.event = "NICK" /\ tk_line.nick # OwnNick)
    => LET old == tk_line.nick
           new == tk_line.arg
       IN \A c \in TkChans :
            /\ (c \in tk_before.tracked /\ tk_before.priv[c][old] >= 0)
               => /\ tk_st.priv[c][new] = tk_before.priv[c][old]
                  /\ old # new => tk_st.priv[c][old] = -1
            /\ \A k \in 1..3 :
                 old \in LegacyLists(tk_before)[k][c]
                 => /\ new \in LegacyLists(tk_st)[k][c]
                    /\ old # new => old \notin LegacyLists(tk_st)[k][c]
            /\ \A n \in TkNicks \ {old, new} :
                 /\ tk_st.priv[c][n] = tk_before.priv[c][n]
                 /\ \A k \in 1..3 :
                      n \in LegacyLists(tk_st)[k][c]
                      <=> n \in LegacyLists(tk_before)[k][c]

\* the op a of #x has become c
C31_Witness ==
    /\ tk_pc = "done"
    /\ tk_line.event = "NICK"
    /\ tk_line.nick = "a"
    /\ tk_line.arg = "c"
    /\ tk_before.priv["#x"]["a"] = OP
    /\ tk_st.priv["#x"]["c"] = OP
    /\ "c" \in tk_st.ops["#x"]

\* C32: after a NICK line whose old nick is the bot's own, the handler has
\* logged the warning and sent the message to the owner, and the map and
\* the legacy lists are as they were.
C32_OwnNickNotice ==
    (tk_pc = "done" /\ tk_line.event = "NICK" /\ tk_line.nick = OwnNick)
    => /\ tk_out.debug
       /\ tk_out.msg
       /\ tk_st = tk_before

\* the nick a PART or KICK line removes
Affected == IF tk_line.event = "PART" THEN tk_line.nick ELSE tk_line.arg

\* C33: after a PART or KICK line, if it affects the bot the channel is
\* gone from the channel list and its whole entry from the map; if it
\* affects another user only that user's entry of that channel is gone;
\* for an unknown channel or user the state is as it was.
C33_PartKick ==
    (tk_pc = "done" /\ tk_line.event \in {"PART", "KICK"})
    => LET c == tk_line.sender
       IN IF Affected = OwnNick
          THEN IF c \in tk_before.channels
               THEN tk_st = [tk_before EXCEPT
                               !.channels = tk_before.channels \ {c},
                               !.tracked = tk_before.tracked \ {c},
                               !.priv[c] = [n \in TkNicks |-> -1]]
               ELSE tk_st = tk_before
          ELSE IF c \in tk_before.tracked /\ tk_before.priv[c][Affected] >= 0
               THEN tk_st = [tk_before EXCEPT !.priv[c][Affected] = -1]
               ELSE tk_st = tk_before

\* the bot has left #x while it stays in #y
C33_Witness ==
    /\ tk_pc = "done"
    /\ tk_line.event = "PART"
    /\ tk_line.nick = OwnNick
    /\ tk_line.sender = "#x"
    /\ tk_before.channels = TkChans
    /\ tk_before.priv["#x"]["a"] = OP
    /\ tk_st.channels = {"#y"}
    /\ tk_st.tracked = {"#y"}

\* C34: a Trigger built for a channel line of a nick that has left the
\* channel by PART, KICK or QUIT, and was granted nothing since, reports
\* neither isop nor isvoice.
C34_DepartedLosePrivileges ==
    (/\ tk_pc = "done"
     /\ tk_line.event = "PRIVMSG"
     /\ <<tk_line.sender, tk_line.nick>> \in tk_left)
    => ~tk_out.isop /\ ~tk_out.isvoice

(***************************************************************************)
(* Sopel.setup, Sopel.register and Sopel._shutdown: shutdown methods       *)
(***************************************************************************)

ShutMods == {"m1", "m2"}

\* what a module file defines under the name shutdown: nothing, a plain
\* function, or a function that carries an attribute `name`
ShutKinds == {"none", "plain", "named"}

\* the module files enumerate_modules() has found
ShutStart ==
    /\ sh_pc = "idle"
    /\ sh_mods \in [ShutMods -> [loads : BOOLEAN, setup_ok : BOOLEAN,
                                 shutdown : ShutKinds, raises : BOOLEAN]]
    /\ \A m \in ShutMods :
         /\ ~sh_mods[m].loads => sh_mods[m].setup_ok
         /\ sh_mods[m].shutdown = "none" => ~sh_mods[m].raises
    /\ sh_todo = {}
    /\ sh_methods = {}
    /\ sh_left = {}
    /\ sh_calls = [m \in ShutMods |-> 0]
    /\ sh_errors = {}

\* is_shutdown(obj): callable(obj) and hasattr(obj, "name") and
\* obj.__name__ == 'shutdown'; a function has __name__, and has name only
\* when something has set it
IsShutdown(kind) == kind = "named"

\* setup(): self.shutdown_methods = set(), the file names are enumerated
ShutSetupEnter ==
    /\ sh_pc = "idle"
    /\ sh_pc' = "setup"
    /\ sh_todo' = ShutMods
    /\ sh_methods' = {}
    /\ UNCHANGED <<sh_mods, sh_left, sh_calls, sh_errors>>
    /\ UNCHANGED OutsideShut

\* one pass of the loop of setup(): imp.load_source, module.setup(self),
\* self.register(vars(module)); an exception of the first two skips
\* register
ShutSetupLoad ==
    /\ sh_pc = "setup"
    /\ \E m \in sh_todo :
        /\ sh_todo' = sh_todo \ {m}
        /\ sh_methods' =
             IF sh_mods[m].loads /\ sh_mods[m].setup_ok
                /\ IsShutdown(sh_mods[m].shutdown)
             THEN sh_methods \cup {m} ELSE sh_methods
    /\ UNCHANGED <<sh_pc, sh_mods, sh_left, sh_calls, sh_errors>>
    /\ UNCHANGED OutsideShut

\* setup() returns after bind_commands()
ShutSetupLeave ==
    /\ sh_pc = "setup"
    /\ sh_todo = {}
    /\ sh_pc' = "ready"
    /\ UNCHANGED <<sh_mods, sh_todo, sh_methods, sh_left, sh_calls,
                   sh_errors>>
    /\ UNCHANGED OutsideShut

\* _shutdown() is entered: the count is written and the loop starts
ShutdownEnter ==
    /\ sh_pc = "ready"
    /\ sh_pc' = "shutdown"
    /\ sh_left' = sh_methods
    /\ UNCHANGED <<sh_mods, sh_todo, sh_methods, sh_calls, sh_errors>>
    /\ UNCHANGED OutsideShut

\* one pass of the loop of _shutdown(): the method is invoked and an
\* Exception it raises is written to stderr
ShutdownCall ==
    /\ sh_pc = "shutdown"
    /\ \E m \in sh_left :
        /\ sh_left' = sh_left \ {m}
        /\ sh_calls' = [sh_calls EXCEPT ![m] = sh_calls[m] + 1]
        /\ sh_errors' = IF sh_mods[m].raises THEN sh_errors \cup {m}
                        ELSE sh_errors
    /\ UNCHANGED <<sh_pc, sh_mods, sh_todo, sh_methods>>
    /\ UNCHANGED OutsideShut

\* _shutdown() returns
ShutdownLeave ==
    /\ sh_pc = "shutdown"
    /\ sh_left = {}
    /\ sh_pc' = "done"
    /\ UNCHANGED <<sh_mods, sh_todo, sh_methods, sh_left, sh_calls,
                   sh_errors>>
    /\ UNCHANGED OutsideShut

NextShut ==
    \/ ShutSetupEnter
    \/ ShutSetupLoad
    \/ ShutSetupLeave
    \/ ShutdownEnter
    \/ ShutdownCall
    \/ ShutdownLeave

InitShut ==
    /\ JobIdle
    /\ SchedInit
    /\ CallInit
    /\ DispIdle
    /\ CapInit
    /\ RejoinInit
    /\ MainIdle
    /\ NamesInit
    /\ UnregInit
    /\ BlocksInit
    /\ SetupIdle
    /\ ConfigInit
    /\ CapLSIdle
    /\ RaceInit
    /\ JoinInit
    /\ TierInit
    /\ ModesInit
    /\ TrackIdle
    /\ ShutStart
    /\ BootIdle
    /\ RegIdle

SpecShut == InitShut /\ [][NextShut]_vars

\* the module was loaded and registered without an exception
LoadedOk(m) == sh_mods[m].loads /\ sh_mods[m].setup_ok

\* C35: after setup(), the shutdown callable of every successfully loaded
\* module that defines one is among the shutdown methods; after
\* _shutdown(), every registered method was invoked exactly once, whether
\* or not another one failed.
C35_ShutdownRegistered ==
    /\ sh_pc \in {"ready", "shutdown", "done"}
       => \A m \in ShutMods :
            (LoadedOk(m) /\ sh_mods[m].shutdown # "none") => m \in sh_methods
    /\ sh_pc = "done"
       => \A m \in ShutMods : sh_calls[m] = IF m \in sh_methods THEN 1 ELSE 0

(***************************************************************************)
(* Sopel.__init__ on a loaded configuration, then dispatch                 *)
(***************************************************************************)

\* Config.__init__ has read the file
BootStart ==
    /\ ib_pc = "config"
    /\ ib_cfg \in [nick_blocks : NickBlockCfgs, host_blocks : HostBlockCfgs,
                   other_bots : OtherBotsCfgs]

\* Sopel.__init__, lines 89-102: the block lists are set up
BootInit ==
    /\ ib_pc = "config"
    /\ d_nick_blocks' = InitNickBlocks(ib_cfg.nick_blocks, ib_cfg.other_bots)
    /\ d_host_blocks' = InitHostBlocks(ib_cfg.nick_blocks, ib_cfg.host_blocks)
    /\ ib_pc' = "built"
    /\ UNCHANGED <<d_admins, d_owner, d_limit, d_pc, d_line, d_started,
                   d_blocked, d_debug, d_raised, d_fail, d_errors>>
    /\ UNCHANGED ib_cfg
    /\ UNCHANGED OutsideBootDisp

\* the bot is connected and a line arrives
BootReceive ==
    /\ ib_pc = "built"
    /\ Receive

NextBoot ==
    \/ BootInit
    \/ BootReceive
    \/ Dispatch
    \/ NextLine

InitBoot ==
    /\ JobIdle
    /\ SchedInit
    /\ CallInit
    /\ DispIdle
    /\ CapInit
    /\ RejoinInit
    /\ MainIdle
    /\ NamesInit
    /\ UnregInit
    /\ BlocksInit
    /\ SetupIdle
    /\ ConfigInit
    /\ CapLSIdle
    /\ RaceInit
    /\ JoinInit
    /\ TierInit
    /\ ModesInit
    /\ TrackIdle
    /\ ShutIdle
    /\ BootStart
    /\ RegIdle

SpecBoot == InitBoot /\ [][NextBoot]_vars

\* the host of the line is found by an entry of the configured host_blocks
CfgHostBlocked(host) ==
    \E bad_mask \in Range(ib_cfg.host_blocks) :
        /\ Strip(bad_mask) # ""
        /\ ReMatch(Strip(bad_mask), host) \/ Strip(bad_mask) = host

\* C36: if core.host_blocks of the loaded configuration is not empty, it
\* holds the same entries after Sopel.__init__, whatever core.nick_blocks
\* is, and a line from a host listed there starts no handler that is not
\* unblockable, unless its origin is admin or owner.
C36_HostBlocksKept ==
    (ib_pc = "built" /\ ib_cfg.host_blocks # <<>>)
    => /\ d_host_blocks = ib_cfg.host_blocks
       /\ (d_pc = "done" /\ CfgHostBlocked(d_line.host) /\ ~LineAdmin(d_line))
          => \A f \in Range(d_started) : HUnblockable(f)

(***************************************************************************)
(* coretasks.startup and coretasks.rfc1459_startup                         *)
(***************************************************************************)

\* core.channels as get_list gives it
ChannelCfgs == {<<>>, <<"#a">>, <<"#b">>, <<"#a", "#b">>}

\* a connection is open and not registered; the configuration is loaded
RegStart ==
    /\ rg_cfg \in [nickserv : BOOLEAN, oper : BOOLEAN, modes : BOOLEAN,
                   channels : ChannelCfgs]
    /\ rg_registered = FALSE
    /\ rg_seen = <<>>
    /\ rg_out = <<>>
    /\ rg_runs = 0

\* what one call of startup() sends and resets, lines 51-73
StartupSends(cfg) ==
    (IF cfg.nickserv THEN <<<<"PRIVMSG", "NickServ", "IDENTIFY">>>> ELSE <<>>)
    \o (IF cfg.oper THEN <<<<"OPER">>>> ELSE <<>>)
    \o <<<<"MODE", IF cfg.modes THEN "configured" ELSE "B">>>>
    \o <<<<"retry_join", "reset">>>>
    \o [i \in 1..Len(cfg.channels) |-> <<"JOIN", cfg.channels[i]>>]

\* startup(bot, trigger), lines 43-73
StartupCall ==
    /\ rg_registered' = TRUE
    /\ rg_out' = rg_out \o StartupSends(rg_cfg)
    /\ rg_runs' = rg_runs + 1

\* numeric 001 arrives: the handler startup runs
Startup ==
    /\ \A i \in 1..Len(rg_seen) : rg_seen[i] # "001"
    /\ rg_seen' = Append(rg_seen, "001")
    /\ StartupCall
    /\ UNCHANGED rg_cfg
    /\ UNCHANGED OutsideReg

\* numeric 251 arrives: rfc1459_startup, lines 27-36
Rfc1459Startup ==
    /\ \A i \in 1..Len(rg_seen) : rg_seen[i] # "251"
    /\ rg_seen' = Append(rg_seen, "251")
    /\ IF ~rg_registered
       THEN StartupCall
       ELSE UNCHANGED <<rg_registered, rg_out, rg_runs>>
    /\ UNCHANGED rg_cfg
    /\ UNCHANGED OutsideReg

NextReg ==
    \/ Startup
    \/ Rfc1459Startup

InitReg ==
    /\ JobIdle
    /\ SchedInit
    /\ CallInit
    /\ DispIdle
    /\ CapInit
    /\ RejoinInit
    /\ MainIdle
    /\ NamesInit
    /\ UnregInit
    /\ BlocksInit
    /\ SetupIdle
    /\ ConfigInit
    /\ CapLSIdle
    /\ RaceInit
    /\ JoinInit
    /\ TierInit
    /\ ModesInit
    /\ TrackIdle
    /\ ShutIdle
    /\ BootIdle
    /\ RegStart

SpecReg == InitReg /\ [][NextReg]_vars

\* C39: whatever the order in which 001 and 251 arrive, each at most once,
\* the startup sequence - mark registered, identify, OPER, modes, reset of
\* the rejoin counters, joins - has been performed exactly once.
C39_StartupOnce ==
    rg_seen # <<>> =>
        /\ rg_registered
        /\ rg_runs = 1
        /\ rg_out = StartupSends(rg_cfg)

====
